---- MODULE Spec2Model ----
(***************************************************************************)
(* Model of the trip planner of Smart-Trip-Scout: the itinerary optimizer  *)
(* and the scorers of planner.py and planner_backup.py, and the cost       *)
(* estimator, the travel comparison and plan_trip of planner.py.           *)
(*                                                                         *)
(* Text (names, tags, interests, weather conditions) is a sequence of      *)
(* one-character strings, so that str.lower() and the substring test       *)
(* `a in b` are computed.  A date string "YYYY-MM-DD" is the triple        *)
(* <<year, month, day>> of its fields; strptime/strftime go through the    *)
(* proleptic Gregorian ordinal as datetime does.  An optional value        *)
(* (Python None) is the empty sequence, a present one a one-element        *)
(* sequence.  Scores are in hundredths (0.5 is 50, 1.0 is 100).            *)
(***************************************************************************)
EXTENDS Integers, Sequences, FiniteSets, TLC

VARIABLES
    pc,                    \* position of the operation under way
    available_activities,  \* optimizer: copy of the activity pool
    available_restaurants, \* optimizer: copy of the restaurant pool
    start_date,            \* optimizer: start_date argument
    end_date,              \* optimizer: end_date argument
    day,                   \* optimizer: loop variable of `for day in range(days)`
    used_activities,       \* optimizer: names already assigned
    used_restaurants,      \* optimizer: names already assigned
    itinerary,             \* optimizer: date_str -> day_plan
    locals,                \* optimizer: locals of each finished iteration
    items,                 \* scorer: the items argument
    interests,             \* scorer: the interests argument
    weather,               \* scorer: the weather argument
    scorer,                \* scorer: which scoring method runs
    scored_items,          \* scorer: the returned list
    weather_bonus,         \* scorer: the weather bonus given to each input item
    destination,           \* planner: destination argument
    origin_city,           \* planner: origin argument
    budget_level,          \* planner: budget_level argument
    num_travelers,         \* planner: num_travelers argument
    include_lodging,       \* planner: include_lodging argument
    festivals_events,      \* plan_trip: result of get_festivals_and_events
    scored_restaurants,    \* plan_trip: local of the same name
    scored_activities,     \* plan_trip: local of the same name
    confidence_score,      \* plan_trip: local of the same name, as a fraction
    cost_breakdown,        \* result of calculate_trip_cost
    total_cost,            \* sum(cost_breakdown.values())
    route_estimates,       \* compare_travel_options: distance and fare of the route
    travel_comparison,     \* result of compare_travel_options
    trip_plan,             \* plan_trip: the TripPlan assembled
    error,                 \* the exception that ended the operation
    stages,                \* plan_trip: the stages started so far
    emitted,               \* plan_trip: the items yielded so far
    email,                 \* plan_trip_gradio: email argument
    enable_push,           \* plan_trip_gradio: enable_push argument
    formatted_plan,        \* plan_trip_gradio: local of the same name
    current_display,       \* plan_trip_gradio: local of the same name, one part per update
    final_result,          \* plan_trip_gradio: local of the same name, one part per update or notice
    outputs,               \* plan_trip_gradio: the displays yielded so far
    calls,                 \* plan_trip_gradio: the planner methods called so far
    heap,                  \* concurrent requests: the objects created so far, by identity
    frames,                \* concurrent requests: the locals of each call of plan_trip
    solo                   \* concurrent requests: the locals of the same call run alone

vars == <<pc, available_activities, available_restaurants, start_date, end_date,
          day, used_activities, used_restaurants, itinerary, locals,
          items, interests, weather, scorer, scored_items, weather_bonus,
          destination, origin_city, budget_level, num_travelers, include_lodging,
          festivals_events, scored_restaurants, scored_activities, confidence_score,
          cost_breakdown, total_cost, route_estimates, travel_comparison, trip_plan,
          error, stages, emitted,
          email, enable_push, formatted_plan, current_display, final_result,
          outputs, calls, heap, frames, solo>>

optimizerVars == <<available_activities, available_restaurants, start_date, end_date,
                   day, used_activities, used_restaurants, itinerary, locals>>

scorerVars == <<items, interests, weather, scorer, scored_items, weather_bonus>>

\* the state of the requests that share one TripPlanner
concVars == <<heap, frames, solo>>

\* the arguments and the locals of plan_trip_gradio that plan_trip never sees
appVars == <<email, enable_push, formatted_plan, current_display, final_result,
             outputs, calls>>

plannerVars == <<destination, origin_city, budget_level, num_travelers, include_lodging,
                 festivals_events, scored_restaurants, scored_activities,
                 confidence_score, cost_breakdown, total_cost, route_estimates,
                 travel_comparison, trip_plan, error, stages, emitted, appVars,
                 concVars>>

\* the arguments of a planning call, and the state of the caller that passed them
tripArgs == <<destination, origin_city, budget_level, num_travelers, include_lodging,
              appVars, concVars>>

\* the locals and the output of plan_trip
planTripVars == <<festivals_events, scored_restaurants, scored_activities,
                  confidence_score, trip_plan, stages, emitted>>

travelVars == <<route_estimates, travel_comparison>>

(***************************************************************************)
(* Bounds of the model.                                                    *)
(***************************************************************************)
MaxActivities == 4
MaxRestaurants == 2
MaxDays == 3
MaxItems == 2
MaxInterests == 3

(***************************************************************************)
(* Generic sequence helpers.                                               *)
(***************************************************************************)
Range(s) == {s[i] : i \in 1..Len(s)}

Remove_nothing(s, x) == s

\* list.remove(x): drops the first element equal to x
RECURSIVE Remove(_, _)
Remove(s, x) ==
    IF s = <<>> THEN <<>>
    ELSE IF Head(s) = x THEN Tail(s)
    ELSE <<Head(s)>> \o Remove(Tail(s), x)

\* the first element of a list as an optional value
First(s) == IF s = <<>> THEN <<>> ELSE <<s[1]>>

Perms(n) == {p \in [1..n -> 1..n] : \A i, j \in 1..n : p[i] = p[j] => i = j}

\* random.shuffle(s): any permutation of s
Shuffled(s, p) == [i \in 1..Len(s) |-> s[p[i]]]

SeqsUpTo(S, n) == UNION {[1..k -> S] : k \in 0..n}

(***************************************************************************)
(* Text.                                                                   *)
(***************************************************************************)
UpperCase ==
    <<"A", "B", "C", "D", "E", "F", "G", "H", "I", "J", "K", "L", "M",
      "N", "O", "P", "Q", "R", "S", "T", "U", "V", "W", "X", "Y", "Z">>

LowerCase ==
    <<"a", "b", "c", "d", "e", "f", "g", "h", "i", "j", "k", "l", "m",
      "n", "o", "p", "q", "r", "s", "t", "u", "v", "w", "x", "y", "z">>

LowerChar(c) ==
    IF c \in Range(UpperCase)
    THEN LowerCase[CHOOSE i \in 1..26 : UpperCase[i] = c]
    ELSE c

\* str.lower()
Lower(s) == [i \in 1..Len(s) |-> LowerChar(s[i])]

\* a in b, for strings
IsSubstring(a, b) ==
    \E i \in 0..(Len(b) - Len(a)) : SubSeq(b, i + 1, i + Len(a)) = a

outdoor == <<"o", "u", "t", "d", "o", "o", "r">>
indoor == <<"i", "n", "d", "o", "o", "r">>
food == <<"f", "o", "o", "d">>
art == <<"a", "r", "t">>
sunny == <<"s", "u", "n", "n", "y">>
clear == <<"c", "l", "e", "a", "r">>
rainy == <<"r", "a", "i", "n", "y">>
cloudy == <<"c", "l", "o", "u", "d", "y">>

(***************************************************************************)
(* Dates.                                                                  *)
(***************************************************************************)
Years == 2023..2027

IsLeap(y) == (y % 4 = 0 /\ y % 100 # 0) \/ y % 400 = 0

DaysInMonth(y, m) ==
    IF m = 2 THEN (IF IsLeap(y) THEN 29 ELSE 28)
    ELSE IF m \in {4, 6, 9, 11} THEN 30 ELSE 31

\* _DAYS_BEFORE_MONTH of datetime, with the leap day added
DaysBeforeMonth(y, m) ==
    <<0, 31, 59, 90, 120, 151, 181, 212, 243, 273, 304, 334>>[m]
        + (IF m > 2 /\ IsLeap(y) THEN 1 ELSE 0)

DaysBeforeYear(y) ==
    (y - 1) * 365 + ((y - 1) \div 4) - ((y - 1) \div 100) + ((y - 1) \div 400)

\* datetime.strptime(s, "%Y-%m-%d"), as the ordinal of the day
strptime(s) == DaysBeforeYear(s[1]) + DaysBeforeMonth(s[1], s[2]) + s[3]

\* datetime.strftime("%Y-%m-%d") of the day with ordinal n; the month is
\* estimated as (n + 50) >> 5 and corrected, as datetime._ord2ymd does
strftime(n) ==
    LET y == CHOOSE yy \in Years : DaysBeforeYear(yy) < n /\ n <= DaysBeforeYear(yy + 1)
        r == n - DaysBeforeYear(y) - 1
        m0 == (r + 50) \div 32
        m == IF DaysBeforeMonth(y, m0) > r THEN m0 - 1 ELSE m0
    IN  <<y, m, r - DaysBeforeMonth(y, m) + 1>>

\* strptime(s, "%Y-%m-%d") accepts s: the month and the day exist
WellFormedDate(s) ==
    /\ Len(s) = 3
    /\ s[2] \in 1..12
    /\ s[3] \in 1..DaysInMonth(s[1], s[2])

\* a <= b on zero-padded "YYYY-MM-DD" strings: lexicographic on the fields
DateStrLeq(a, b) ==
    \/ a[1] < b[1]
    \/ a[1] = b[1] /\ a[2] < b[2]
    \/ a[1] = b[1] /\ a[2] = b[2] /\ a[3] <= b[3]

(***************************************************************************)
(* Items.                                                                  *)
(***************************************************************************)
None == <<>>

FestivalTypes ==
    {"Food Festival", "Music Festival", "Cultural Event",
     "Heritage Festival", "Night Market", "Nature Festival"}

Item(name, type, tags, rating, sd, ed) ==
    [name |-> name, type |-> type, tags |-> tags, rating |-> rating,
     start_date |-> sd, end_date |-> ed, score |-> None]

Digit(i) == <<"0", "1", "2", "3", "4", "5", "6", "7", "8", "9">>[i + 1]

ActivityName(i) == <<"a", Digit(i)>>
RestaurantName(i) == <<"r", Digit(i)>>

\* The kinds of activity the pools are built from: ordinary activities as in
\* plan_trip's list, and festivals shaped as get_festivals_and_events builds
\* them (a festival type with a start_date and an end_date), dated relative
\* to the first day of the trip.
ActivityKinds(sd) ==
    LET D(k) == strftime(strptime(sd) + k)
    IN  { [type |-> "Tour", tags |-> <<outdoor>>, rating |-> 46,
           start_date |-> None, end_date |-> None],
          [type |-> "Food Festival", tags |-> <<food, outdoor>>, rating |-> 45,
           start_date |-> <<D(0)>>, end_date |-> <<D(0)>>],
          [type |-> "Music Festival", tags |-> <<indoor>>, rating |-> 46,
           start_date |-> <<D(1)>>, end_date |-> <<D(2)>>] }

\* Activity pools with unique names (the name is the key of an item in its pool).
ActivityPools(sd) ==
    { [i \in 1..Len(ks) |->
          Item(ActivityName(i), ks[i].type, ks[i].tags, ks[i].rating,
               ks[i].start_date, ks[i].end_date)] :
      ks \in SeqsUpTo(ActivityKinds(sd), MaxActivities) }

\* Restaurant pools with unique names; one restaurant may carry the name of
\* the first activity.
RestaurantPools ==
    { [i \in 1..n |->
          Item(IF i = shared THEN ActivityName(1) ELSE RestaurantName(i),
               "None", <<food>>, 45, None, None)] :
      n \in 0..MaxRestaurants, shared \in 0..MaxRestaurants }

StartDates == {<<2024, 2, 28>>, <<2025, 12, 30>>}

Names(s) == [i \in 1..Len(s) |-> s[i].name]

(***************************************************************************)
(* function_tool_optimizer (planner.py).                                   *)
(***************************************************************************)
days_no_plus_one == strptime(end_date) - strptime(start_date)

\* days = (end - start).days + 1
days == (strptime(end_date) - strptime(start_date)) + 1

\* act.get('type') in [...] and act.get('start_date') <= date_str <= act.get('end_date', date_str)
IsFestivalOn(act, date_str) ==
    /\ act.type \in FestivalTypes
    /\ DateStrLeq(act.start_date[1], date_str)
    /\ DateStrLeq(date_str, IF act.end_date = None THEN date_str ELSE act.end_date[1])

HasTag(act, tag) == tag \in Range(act.tags)

\* Entry of function_tool_optimizer: lines 455-467.
OptimizerInit ==
    /\ pc = "optimizer_loop"
    /\ start_date \in StartDates
    /\ \E n \in -1..(MaxDays - 1) : end_date = strftime(strptime(start_date) + n)
    /\ available_activities \in ActivityPools(start_date)
    /\ available_restaurants \in RestaurantPools
    /\ day = 0
    /\ used_activities = {}
    /\ used_restaurants = {}
    /\ itinerary = <<>>
    /\ locals = <<>>

Unused_unfiltered(available, used) == available

\* [act for act in available if act['name'] not in used]
Unused(available, used) == SelectSeq(available, LAMBDA act : act.name \notin used)

MarkUsed_forgotten(used, choice) == used

\* used.add(choice['name']), when a choice was made
MarkUsed(used, choice) == IF choice = None THEN used ELSE used \cup {choice[1].name}

MorningChoice_outdoor_first(unused, festivals_today) ==
    IF unused # <<>> THEN
        LET outdoor_morning == SelectSeq(unused, LAMBDA act : HasTag(act, outdoor))
        IN  IF outdoor_morning # <<>> THEN <<outdoor_morning[1]>> ELSE <<unused[1]>>
    ELSE None

\* The pick of the morning slot, lines 499-512: the chosen activity, or None.
MorningChoice(unused, festivals_today) ==
    IF festivals_today # <<>> /\ unused # <<>> THEN <<festivals_today[1]>>
    ELSE IF unused # <<>> THEN
        LET outdoor_morning == SelectSeq(unused, LAMBDA act : HasTag(act, outdoor))
        IN  IF outdoor_morning # <<>> THEN <<outdoor_morning[1]>> ELSE <<unused[1]>>
    ELSE None

\* The branch of lines 516-532 that fills the afternoon slot.
AfternoonBranch(remaining_festivals, unused, morning_activity) ==
    IF remaining_festivals # <<>> /\ unused # <<>> THEN "festival"
    ELSE IF unused # <<>> THEN "unused"
    ELSE IF morning_activity # None THEN "different_type"
    ELSE "none"

DifferentType_name_only(available, morning_activity) ==
    SelectSeq(available, LAMBDA act : act.name # morning_activity[1].name)

\* different_type of lines 528-530
DifferentType(available, morning_activity) ==
    SelectSeq(available, LAMBDA act : act.name # morning_activity[1].name
                                   /\ act.type # morning_activity[1].type)

AfternoonChoice(branch, remaining_festivals, unused, available, morning_activity) ==
    CASE branch = "festival" -> <<remaining_festivals[1]>>
      [] branch = "unused" -> <<unused[1]>>
      [] branch = "different_type" -> First(DifferentType(available, morning_activity))
      [] OTHER -> None

EveningChoice_needs_activity(unused_restaurants, morning_activity) ==
    IF morning_activity = None THEN None ELSE First(unused_restaurants)

\* The pick of the evening slot, lines 535-538.
EveningChoice(unused_restaurants, morning_activity) == First(unused_restaurants)

\* One iteration of the loop of function_tool_optimizer, lines 469-546;
\* pa and pr are the outcomes of the two random.shuffle calls.
OptimizerDay(pa, pr) ==
    LET date_str == strftime(strptime(start_date) + day)
        unused_activities0 == Unused(available_activities, used_activities)
        unused_restaurants0 == Unused(available_restaurants, used_restaurants)
        reset_activities == unused_activities0 = <<>> /\ available_activities # <<>>
        reset_restaurants == unused_restaurants0 = <<>> /\ available_restaurants # <<>>
        used_activities1 == IF reset_activities THEN {} ELSE used_activities
        unused_activities1 ==
            IF reset_activities THEN Shuffled(available_activities, pa) ELSE unused_activities0
        used_restaurants1 == IF reset_restaurants THEN {} ELSE used_restaurants
        unused_restaurants1 ==
            IF reset_restaurants THEN Shuffled(available_restaurants, pr)
            ELSE unused_restaurants0
        festivals_today ==
            SelectSeq(unused_activities1, LAMBDA act : IsFestivalOn(act, date_str))
        morning_activity == MorningChoice(unused_activities1, festivals_today)
        used_activities2 == MarkUsed(used_activities1, morning_activity)
        unused_activities2 ==
            IF morning_activity = None THEN unused_activities1
            ELSE Remove(unused_activities1, morning_activity[1])
        remaining_festivals ==
            SelectSeq(festivals_today, LAMBDA act : act.name \notin used_activities2)
        branch == AfternoonBranch(remaining_festivals, unused_activities2, morning_activity)
        afternoon_activity ==
            AfternoonChoice(branch, remaining_festivals, unused_activities2,
                            available_activities, morning_activity)
        used_activities3 ==
            IF branch \in {"festival", "unused"}
            THEN MarkUsed(used_activities2, afternoon_activity)
            ELSE used_activities2
        evening_restaurant == EveningChoice(unused_restaurants1, morning_activity)
        used_restaurants2 == MarkUsed(used_restaurants1, evening_restaurant)
        day_plan == [morning |-> morning_activity,
                     afternoon |-> afternoon_activity,
                     evening |-> evening_restaurant]
    IN  /\ used_activities' = used_activities3
        /\ used_restaurants' = used_restaurants2
        /\ itinerary' = [d \in DOMAIN itinerary \cup {date_str} |->
                            IF d = date_str THEN day_plan ELSE itinerary[d]]
        /\ locals' = Append(locals,
                        [date_str |-> date_str,
                         reset_activities |-> reset_activities,
                         reset_restaurants |-> reset_restaurants,
                         unused_activities |-> Names(unused_activities1),
                         unused_after_morning |-> Names(unused_activities2),
                         branch |-> branch])

NeedsReset(available, used) == available # <<>> /\ Unused(available, used) = <<>>

Identity(n) == [i \in 1..n |-> i]

ShuffleOutcomes(needed, n) == IF needed THEN Perms(n) ELSE {Identity(n)}

\* for day in range(days): one iteration
OptimizerStep ==
    /\ pc = "optimizer_loop"
    /\ day < days
    /\ \E pa \in ShuffleOutcomes(NeedsReset(available_activities, used_activities),
                                 Len(available_activities)),
          pr \in ShuffleOutcomes(NeedsReset(available_restaurants, used_restaurants),
                                 Len(available_restaurants)) :
           OptimizerDay(pa, pr)
    /\ day' = day + 1
    /\ pc' = pc
    /\ UNCHANGED <<available_activities, available_restaurants, start_date, end_date>>
    /\ UNCHANGED scorerVars
    /\ UNCHANGED plannerVars

\* return itinerary
OptimizerReturn ==
    /\ pc = "optimizer_loop"
    /\ day >= days
    /\ pc' = "optimizer_done"
    /\ UNCHANGED optimizerVars
    /\ UNCHANGED scorerVars
    /\ UNCHANGED plannerVars

\* no concurrent requests
ConcIdle ==
    /\ heap = <<>>
    /\ frames = <<>>
    /\ solo = <<>>

\* plan_trip_gradio is not running
AppIdle ==
    /\ ConcIdle
    /\ email = <<>>
    /\ enable_push = FALSE
    /\ formatted_plan = <<>>
    /\ current_display = <<>>
    /\ final_result = <<>>
    /\ outputs = <<>>
    /\ calls = <<>>

PlannerIdle ==
    /\ AppIdle
    /\ destination = <<>>
    /\ origin_city = <<>>
    /\ budget_level = "mid"
    /\ num_travelers = 1
    /\ include_lodging = TRUE
    /\ festivals_events = <<>>
    /\ scored_restaurants = <<>>
    /\ scored_activities = <<>>
    /\ confidence_score = None
    /\ cost_breakdown = None
    /\ total_cost = None
    /\ route_estimates = None
    /\ travel_comparison = None
    /\ trip_plan = None
    /\ error = None
    /\ stages = <<>>
    /\ emitted = <<>>

ScorerIdle ==
    /\ items = <<>>
    /\ interests = <<>>
    /\ weather = None
    /\ scorer = "none"
    /\ scored_items = <<>>
    /\ weather_bonus = <<>>

OptInit == OptimizerInit /\ ScorerIdle /\ PlannerIdle

OptNext == OptimizerStep \/ OptimizerReturn

OptSpec == OptInit /\ [][OptNext]_vars

(***************************************************************************)
(* The scorers: function_tool_evaluator (planner.py), and                  *)
(* evaluate_and_score_items with _apply_intelligent_scoring and            *)
(* _apply_basic_scoring (planner_backup.py).                               *)
(***************************************************************************)
Food == <<"F", "o", "o", "d">>
oo == <<"o", "o">>
Seafood == <<"S", "e", "a", "f", "o", "o", "d">>
Sunny == <<"S", "u", "n", "n", "y">>

\* Items as the data sources of plan_trip build them.
ScorerItems ==
    { Item(<<"F", "o", "o", "d", " ", "F", "a", "i", "r">>, "Tour",
           <<food, outdoor>>, 46, None, None),
      Item(<<"A", "r", "t", " ", "C", "a", "f", "e">>, "Cultural",
           <<art, indoor>>, 42, None, None),
      Item(<<"S", "p", "a">>, "Experience", <<indoor, outdoor>>, 39, None, None),
      Item(<<"F", "e", "s", "t">>, "Food Festival", <<food, outdoor>>, 45,
           <<(<<2025, 9, 1>>)>>, <<(<<2025, 9, 3>>)>>),
      Item(<<"C", "a", "r">>, "Tour", <<Seafood>>, 0, None, None) }

ScorerInterests == {art, Food, oo}

\* the weather dict: its 'condition' entry, or None when the key is absent
Weathers ==
    {[condition |-> c] : c \in {<<sunny>>, <<clear>>, <<rainy>>, <<cloudy>>, <<Sunny>>, None}}

Min(a, b) == IF a <= b THEN a ELSE b

Clamp_missing(score) == score

\* min(1.0, score)
Clamp(score) == Min(100, score)

MatchesTag_case_sensitive(interest, item) ==
    \E t \in 1..Len(item.tags) : IsSubstring(interest, item.tags[t])

\* any(interest.lower() in tag.lower() for tag in item_tags)
MatchesTag(interest, item) ==
    \E t \in 1..Len(item.tags) : IsSubstring(Lower(interest), Lower(item.tags[t]))

\* interest.lower() in item.get('name', '').lower()
MatchesName(interest, item) == IsSubstring(Lower(interest), Lower(item.name))

\* interest_bonus of function_tool_evaluator, lines 429-431
RECURSIVE EvaluatorInterestBonus(_, _)
EvaluatorInterestBonus(item, ints) ==
    IF ints = <<>> THEN 0
    ELSE (IF MatchesTag(Head(ints), item) THEN 20 ELSE 0)
             + EvaluatorInterestBonus(item, Tail(ints))

EvaluatorWeatherBonus_swapped(item, w) ==
    IF w.condition = <<sunny>> /\ HasTag(item, indoor) THEN 10
    ELSE IF w.condition = <<rainy>> /\ HasTag(item, outdoor) THEN 10
    ELSE 0

\* weather_bonus of function_tool_evaluator, lines 434-437
EvaluatorWeatherBonus(item, w) ==
    IF w.condition = <<sunny>> /\ HasTag(item, outdoor) THEN 10
    ELSE IF w.condition = <<rainy>> /\ HasTag(item, indoor) THEN 10
    ELSE 0

\* final_score of function_tool_evaluator, line 439
EvaluatorScore(item, ints, w) ==
    Clamp(50 + EvaluatorInterestBonus(item, ints) + EvaluatorWeatherBonus(item, w))

\* the interest terms of _apply_intelligent_scoring, lines 151-155
RECURSIVE IntelligentInterestBonus(_, _)
IntelligentInterestBonus(item, ints) ==
    IF ints = <<>> THEN 0
    ELSE (IF MatchesTag(Head(ints), item) THEN 15 ELSE 0)
             + (IF MatchesName(Head(ints), item) THEN 10 ELSE 0)
             + IntelligentInterestBonus(item, Tail(ints))

\* weather.get('condition', '').lower()
ConditionLower(w) == IF w.condition = None THEN <<>> ELSE Lower(w.condition[1])

\* the weather term of _apply_intelligent_scoring, lines 158-161
IntelligentWeatherBonus(item, w) ==
    IF ConditionLower(w) \in {sunny, clear} /\ HasTag(item, outdoor) THEN 10
    ELSE IF ConditionLower(w) \in {rainy, cloudy} /\ HasTag(item, indoor) THEN 10
    ELSE 0

\* the quality term of _apply_intelligent_scoring, lines 164-167
QualityBonus(item) ==
    IF item.rating >= 45 THEN 10 ELSE IF item.rating >= 40 THEN 5 ELSE 0

\* the festival term of _apply_intelligent_scoring, lines 170-171
FestivalBoost(item) ==
    IF item.type \in {"Food Festival", "Music Festival", "Cultural Event"} THEN 15 ELSE 0

\* item['score'] of _apply_intelligent_scoring, line 173
IntelligentScore(item, ints, w) ==
    Clamp(50 + IntelligentInterestBonus(item, ints) + IntelligentWeatherBonus(item, w)
             + QualityBonus(item) + FestivalBoost(item))

BasicScore_with_weather(item, ints, w) ==
    Clamp(50 + EvaluatorInterestBonus(item, ints) + EvaluatorWeatherBonus(item, w))

\* item['score'] of _apply_basic_scoring, lines 181-185
BasicScore(item, ints, w) == Clamp(50 + EvaluatorInterestBonus(item, ints))

InsertByScore_before_equal(sorted, x) ==
    LET before == SelectSeq(sorted, LAMBDA y : y.score[1] > x.score[1])
        after == SelectSeq(sorted, LAMBDA y : y.score[1] <= x.score[1])
    IN  before \o <<x>> \o after

\* sorted(..., key=score, reverse=True) is stable: x goes after the items
\* already placed whose score is not lower
InsertByScore(sorted, x) ==
    LET before == SelectSeq(sorted, LAMBDA y : y.score[1] >= x.score[1])
        after == SelectSeq(sorted, LAMBDA y : y.score[1] < x.score[1])
    IN  before \o <<x>> \o after

\* sorted(s, key=lambda x: x['score'], reverse=True)
RECURSIVE SortedByScore(_)
SortedByScore(s) ==
    IF s = <<>> THEN <<>>
    ELSE InsertByScore(SortedByScore(SubSeq(s, 1, Len(s) - 1)), s[Len(s)])

WithScore(item, score) == [item EXCEPT !.score = <<score>>]

OptimizerIdle ==
    /\ available_activities = <<>>
    /\ available_restaurants = <<>>
    /\ start_date = <<2025, 9, 1>>
    /\ end_date = <<2025, 9, 1>>
    /\ day = 0
    /\ used_activities = {}
    /\ used_restaurants = {}
    /\ itinerary = <<>>
    /\ locals = <<>>

\* A call of one of the two entry points of scoring.
ScorerInit ==
    /\ pc = "scorer_call"
    /\ scorer \in {"function_tool_evaluator", "evaluate_and_score_items"}
    /\ items \in SeqsUpTo(ScorerItems, MaxItems)
    /\ interests \in SeqsUpTo(ScorerInterests, MaxInterests)
    /\ weather \in Weathers
    /\ scored_items = <<>>
    /\ weather_bonus = <<>>

\* function_tool_evaluator, lines 420-445: scores copies of the items
FunctionToolEvaluator ==
    /\ pc = "scorer_call"
    /\ scorer = "function_tool_evaluator"
    /\ scored_items' = SortedByScore(
           [i \in 1..Len(items) |->
               WithScore(items[i], EvaluatorScore(items[i], interests, weather))])
    /\ weather_bonus' = [i \in 1..Len(items) |-> EvaluatorWeatherBonus(items[i], weather)]
    /\ pc' = "scored"
    /\ UNCHANGED <<items, interests, weather, scorer>>
    /\ UNCHANGED optimizerVars
    /\ UNCHANGED plannerVars

\* evaluate_and_score_items, lines 115-138: the external call returns and
\* _apply_intelligent_scoring scores the items in place
ExternalScoringSucceeds ==
    /\ pc = "scorer_call"
    /\ scorer = "evaluate_and_score_items"
    /\ items' = [i \in 1..Len(items) |->
                    WithScore(items[i], IntelligentScore(items[i], interests, weather))]
    /\ scored_items' = SortedByScore(items')
    /\ weather_bonus' = [i \in 1..Len(items) |-> IntelligentWeatherBonus(items[i], weather)]
    /\ scorer' = "_apply_intelligent_scoring"
    /\ pc' = "scored"
    /\ UNCHANGED <<interests, weather>>
    /\ UNCHANGED optimizerVars
    /\ UNCHANGED plannerVars

\* evaluate_and_score_items, lines 140-142: the external call raises and
\* _apply_basic_scoring scores the items in place
ExternalScoringFails ==
    /\ pc = "scorer_call"
    /\ scorer = "evaluate_and_score_items"
    /\ items' = [i \in 1..Len(items) |->
                    WithScore(items[i], BasicScore(items[i], interests, weather))]
    /\ scored_items' = SortedByScore(items')
    /\ weather_bonus' = [i \in 1..Len(items) |-> 0]
    /\ scorer' = "_apply_basic_scoring"
    /\ pc' = "scored"
    /\ UNCHANGED <<interests, weather>>
    /\ UNCHANGED optimizerVars
    /\ UNCHANGED plannerVars

IsFestivalList(s) ==
    s # <<>> /\ \A i \in 1..Len(s) : s[i].type \in FestivalTypes

\* plan_trip, lines 623-628 (planner_backup.py 651-656): the scored festivals
\* are boosted by 0.2
BoostFestivals ==
    /\ pc = "scored"
    /\ IsFestivalList(items)
    /\ scored_items' = [i \in 1..Len(scored_items) |->
                           WithScore(scored_items[i], Clamp(scored_items[i].score[1] + 20))]
    /\ pc' = "boosted"
    /\ UNCHANGED <<items, interests, weather, scorer, weather_bonus>>
    /\ UNCHANGED optimizerVars
    /\ UNCHANGED plannerVars

ScoreInit == ScorerInit /\ OptimizerIdle /\ PlannerIdle

ScoreNext ==
    \/ FunctionToolEvaluator
    \/ ExternalScoringSucceeds
    \/ ExternalScoringFails
    \/ BoostFestivals

ScoreSpec == ScoreInit /\ [][ScoreNext]_vars

(***************************************************************************)
(* Properties of function_tool_optimizer.                                  *)
(***************************************************************************)
\* the calendar day after d
NextDate(d) ==
    IF d[3] < DaysInMonth(d[1], d[2]) THEN <<d[1], d[2], d[3] + 1>>
    ELSE IF d[2] < 12 THEN <<d[1], d[2] + 1, 1>>
    ELSE <<d[1] + 1, 1, 1>>

\* the consecutive dates first..last, for first <= last
RECURSIVE DatesFrom(_, _)
DatesFrom(first, last) ==
    IF first = last THEN {first} ELSE {first} \cup DatesFrom(NextDate(first), last)

TripLength == strptime(end_date) - strptime(start_date) + 1

SlotNames == {"morning", "afternoon", "evening"}

AllSlots == (DOMAIN itinerary) \X SlotNames

SlotItem(sl) == itinerary[sl[1]][sl[2]]

\* the activities (restaurants) assigned so far, in order of assignment
RECURSIVE Assigned(_, _)
Assigned(i, slots) ==
    IF i = 0 THEN <<>>
    ELSE LET plan == itinerary[locals[i].date_str]
         IN  Assigned(i - 1, slots)
                 \o (IF "morning" \in slots THEN plan.morning ELSE <<>>)
                 \o (IF "afternoon" \in slots THEN plan.afternoon ELSE <<>>)
                 \o (IF "evening" \in slots THEN plan.evening ELSE <<>>)

ActivityAssignments == Assigned(Len(locals), {"morning", "afternoon"})

RestaurantAssignments == Assigned(Len(locals), {"evening"})

PoolNames(pool) == {pool[i].name : i \in 1..Len(pool)}

\* C1: for start_date <= end_date the returned itinerary has exactly
\* (end_date - start_date).days + 1 entries, keyed by the consecutive dates
\* start_date..end_date, whatever the pools (empty pools included).
C1_ItineraryCoverage ==
    (pc = "optimizer_done" /\ DateStrLeq(start_date, end_date)) =>
        /\ DOMAIN itinerary = DatesFrom(start_date, end_date)
        /\ Cardinality(DOMAIN itinerary) = TripLength
        /\ \A d \in DOMAIN itinerary : DOMAIN itinerary[d] = SlotNames

C1_Witness ==
    /\ pc = "optimizer_done"
    /\ start_date = <<2024, 2, 28>>
    /\ end_date = <<2024, 3, 1>>
    /\ available_activities = <<>>
    /\ available_restaurants = <<>>
    /\ <<2024, 2, 29>> \in DOMAIN itinerary

C2_Precondition ==
    /\ pc = "optimizer_done"
    /\ TripLength >= 1
    /\ Len(available_activities) >= 2 * TripLength
    /\ Len(available_restaurants) >= TripLength

\* C2 as stated: with at least 2N activities and N restaurants (unique names
\* in each pool) no item name appears in more than one slot of the itinerary,
\* morning, afternoon or evening, on any day.
C2_NoNameInTwoSlots ==
    C2_Precondition =>
        \A s, t \in AllSlots :
            (s # t /\ SlotItem(s) # None /\ SlotItem(t) # None)
                => SlotItem(s)[1].name # SlotItem(t)[1].name

\* C2 as amended: under the same condition no activity name appears in more
\* than one activity slot (morning or afternoon) and no restaurant name in
\* more than one evening slot; every slot is filled.
C2_NoRepeatWithinPool ==
    C2_Precondition =>
        /\ \A s \in AllSlots : SlotItem(s) # None
        /\ \A s, t \in AllSlots :
               (s # t /\ (s[2] = "evening") = (t[2] = "evening"))
                   => SlotItem(s)[1].name # SlotItem(t)[1].name

C2_Witness ==
    /\ C2_Precondition
    /\ TripLength = 2
    /\ Len(available_activities) = 4
    /\ \E s, t \in AllSlots :
           /\ s[2] = "evening" /\ t[2] = "morning"
           /\ SlotItem(s) # None /\ SlotItem(t) # None
           /\ SlotItem(s)[1].name = SlotItem(t)[1].name

NoEarlyRepeat(seq, pool) ==
    \A j \in 1..Len(seq) :
        (\E i \in 1..(j - 1) : seq[i].name = seq[j].name)
            => {seq[i].name : i \in 1..(j - 1)} = PoolNames(pool)

\* C3: no activity is assigned a second time before every activity of the
\* pool has been assigned once, and likewise for restaurants, for every
\* outcome of the reshuffle and also when the fallback fills the afternoon.
C3_NoReuseBeforeExhaustion ==
    /\ NoEarlyRepeat(ActivityAssignments, available_activities)
    /\ NoEarlyRepeat(RestaurantAssignments, available_restaurants)

C3_Witness ==
    /\ pc = "optimizer_done"
    /\ \E i \in 1..Len(locals) :
           /\ locals[i].branch = "different_type"
           /\ itinerary[locals[i].date_str].afternoon # None
    /\ \E i \in 1..Len(locals) : locals[i].reset_activities
    /\ \E i \in 1..Len(locals) : locals[i].reset_restaurants

\* C4: an empty activity pool leaves every morning and afternoon slot null, an
\* empty restaurant pool leaves every evening slot null, and the slots of
\* the other, non-empty pool are still filled on every day of the trip.
C4_EmptyPoolLeavesSlotsNull ==
    /\ available_activities = <<>> =>
           \A d \in DOMAIN itinerary :
               /\ itinerary[d].morning = None
               /\ itinerary[d].afternoon = None
               /\ available_restaurants # <<>> => itinerary[d].evening # None
    /\ available_restaurants = <<>> =>
           \A d \in DOMAIN itinerary :
               /\ itinerary[d].evening = None
               /\ available_activities # <<>> => itinerary[d].morning # None
    /\ (pc = "optimizer_done" /\ TripLength >= 1
            /\ (available_activities = <<>> \/ available_restaurants = <<>>))
           => Cardinality(DOMAIN itinerary) = TripLength

C4_Witness ==
    /\ pc = "optimizer_done"
    /\ available_activities = <<>>
    /\ Len(available_restaurants) = 2
    /\ TripLength = 3
    /\ \A d \in DOMAIN itinerary : itinerary[d].evening # None

\* C5: when no unused activity remains once the morning slot is assigned, the
\* afternoon holds an item of the full activity list whose name and type both
\* differ from the morning item's, and is null when there is none; a 1-day
\* trip with a 1-activity pool gets that activity in the morning and an
\* empty afternoon.
C5_ExhaustedPoolFallback ==
    /\ \A i \in 1..Len(locals) :
           LET plan == itinerary[locals[i].date_str]
               others == {a \in Range(available_activities) :
                             /\ a.name # plan.morning[1].name
                             /\ a.type # plan.morning[1].type}
           IN  (plan.morning # None /\ locals[i].unused_after_morning = <<>>) =>
                   IF others = {} THEN plan.afternoon = None
                   ELSE plan.afternoon # None /\ plan.afternoon[1] \in others
    /\ (pc = "optimizer_done" /\ TripLength = 1 /\ Len(available_activities) = 1) =>
           /\ itinerary[start_date].morning = <<available_activities[1]>>
           /\ itinerary[start_date].afternoon = None

C5_Witness ==
    \E i \in 1..Len(locals) :
        LET plan == itinerary[locals[i].date_str]
        IN  /\ plan.morning # None
            /\ locals[i].unused_after_morning = <<>>
            /\ plan.afternoon # None
            /\ \E a \in Range(available_activities) :
                   a.name # plan.morning[1].name /\ a.type = plan.morning[1].type

\* the festivals not yet used when day i is planned whose range contains it
FestivalsOfDay(i) ==
    {a \in Range(available_activities) :
        /\ a.name \in Range(locals[i].unused_activities)
        /\ a.type \in FestivalTypes
        /\ strptime(a.start_date[1]) <= strptime(locals[i].date_str)
        /\ strptime(locals[i].date_str) <= strptime(a.end_date[1])}

\* C6: on each day, if at least one not yet used festival has a date range
\* containing the day the morning slot is such a festival, and if at least
\* two do the afternoon slot is one too, in preference to every ordinary
\* activity.
C6_FestivalsFirst ==
    \A i \in 1..Len(locals) :
        LET plan == itinerary[locals[i].date_str]
        IN  /\ Cardinality(FestivalsOfDay(i)) >= 1 =>
                   plan.morning # None /\ plan.morning[1] \in FestivalsOfDay(i)
            /\ Cardinality(FestivalsOfDay(i)) >= 2 =>
                   /\ plan.afternoon # None
                   /\ plan.afternoon[1] \in FestivalsOfDay(i)
                   /\ plan.afternoon # plan.morning

C6_Witness ==
    \E i \in 1..Len(locals) :
        /\ Cardinality(FestivalsOfDay(i)) >= 2
        /\ available_activities[1].type = "Tour"
        /\ HasTag(available_activities[1], outdoor)
        /\ available_activities[1].name \in Range(locals[i].unused_activities)

(***************************************************************************)
(* Properties of the scorers.                                              *)
(***************************************************************************)
Unscored(item) == [item EXCEPT !.score = None]

\* C7: every score attached to an item lies in [0.5, 1.0], for
\* function_tool_evaluator, _apply_intelligent_scoring, _apply_basic_scoring
\* and for festival scores after the +0.2 boost of plan_trip.
C7_ScoresInRange ==
    /\ pc \in {"scored", "boosted"} => Len(scored_items) = Len(items)
    /\ \A i \in 1..Len(scored_items) :
           /\ scored_items[i].score # None
           /\ 50 <= scored_items[i].score[1]
           /\ scored_items[i].score[1] <= 100
    /\ \A i \in 1..Len(items) :
           items[i].score # None =>
               50 <= items[i].score[1] /\ items[i].score[1] <= 100

C7_Witness ==
    /\ pc = "boosted"
    /\ scorer = "function_tool_evaluator"
    /\ interests = <<Food, oo, oo>>
    /\ weather.condition = <<sunny>>
    /\ Len(scored_items) = 2
    /\ \A i \in 1..Len(scored_items) : scored_items[i].score[1] = 100

\* C8: function_tool_evaluator returns exactly the input items, each once and
\* each with a score, in non-increasing score order, items of equal score
\* keeping their relative input order.
C8_EvaluatorStableSort ==
    (pc = "scored" /\ scorer = "function_tool_evaluator") =>
        /\ Len(scored_items) = Len(items)
        /\ \E p \in Perms(Len(items)) :
               /\ \A i \in 1..Len(items) :
                      /\ scored_items[i].score # None
                      /\ Unscored(scored_items[i]) = items[p[i]]
               /\ \A i, j \in 1..Len(items) :
                      i < j =>
                          /\ scored_items[i].score[1] >= scored_items[j].score[1]
                          /\ scored_items[i].score[1] = scored_items[j].score[1]
                                 => p[i] < p[j]

C8_Witness ==
    /\ pc = "scored"
    /\ scorer = "function_tool_evaluator"
    /\ Len(items) = 2
    /\ items[1] # items[2]
    /\ scored_items[1].score = scored_items[2].score
    /\ Unscored(scored_items[1]) = items[1]

\* the weather bonus the condition/tag pairs in `pairs` grant to an item
PairBonus(cond, item, pairs) ==
    IF \E pr \in pairs : cond = pr[1] /\ HasTag(item, pr[2]) THEN 10 ELSE 0

FairAndPoor ==
    {<<sunny, outdoor>>, <<clear, outdoor>>, <<rainy, indoor>>, <<cloudy, indoor>>}

\* C9 as stated: both function_tool_evaluator and _apply_intelligent_scoring
\* add a weather bonus of exactly 0.1 when the condition is sunny or clear
\* and the item is tagged outdoor, or rainy or cloudy and tagged indoor, and
\* none otherwise (conditions written in lower case).
C9_WeatherBonusBothScorers ==
    (pc = "scored" /\ scorer \in {"function_tool_evaluator", "_apply_intelligent_scoring"}
         /\ weather.condition # <<Sunny>>) =>
        \A i \in 1..Len(items) :
            weather_bonus[i] =
                IF weather.condition = None THEN 0
                ELSE PairBonus(weather.condition[1], items[i], FairAndPoor)

\* C9 as amended: _apply_intelligent_scoring adds the bonus for sunny or
\* clear (any letter case) with outdoor and for rainy or cloudy with indoor;
\* function_tool_evaluator adds it only for exactly 'sunny' with outdoor and
\* exactly 'rainy' with indoor; no item gets more than one bonus of 0.1, and
\* with no interests the evaluator's score is 0.5 plus that bonus.
C9_WeatherBonusPerScorer ==
    pc = "scored" =>
        /\ scorer = "_apply_intelligent_scoring" =>
               \A i \in 1..Len(items) :
                   weather_bonus[i] =
                       IF weather.condition = None THEN 0
                       ELSE PairBonus(Lower(weather.condition[1]), items[i], FairAndPoor)
        /\ scorer = "function_tool_evaluator" =>
               \A i \in 1..Len(items) :
                   LET bonus == IF weather.condition = None THEN 0
                                ELSE PairBonus(weather.condition[1], items[i],
                                               {<<sunny, outdoor>>, <<rainy, indoor>>})
                   IN  /\ weather_bonus[i] = bonus
                       /\ interests = <<>> =>
                              \E k \in 1..Len(scored_items) :
                                  /\ Unscored(scored_items[k]) = items[i]
                                  /\ scored_items[k].score[1] = 50 + bonus
        /\ \A i \in 1..Len(weather_bonus) : weather_bonus[i] \in {0, 10}

C9_Witness ==
    /\ pc = "scored"
    /\ scorer = "function_tool_evaluator"
    /\ weather.condition = <<clear>>
    /\ \E i \in 1..Len(items) :
           /\ HasTag(items[i], outdoor)
           /\ HasTag(items[i], indoor)
           /\ weather_bonus[i] = 0

\* the number of entries of the interest list that match a tag of the item
MatchCount(item, ints) ==
    Cardinality({k \in 1..Len(ints) :
                    \E t \in Range(item.tags) : IsSubstring(Lower(ints[k]), Lower(t))})

\* C10: when the external scoring call of evaluate_and_score_items fails, the
\* method returns all the input items, each scored
\* min(1.0, 0.5 + 0.2 x number of interests matching one of its tags) with no
\* weather, quality or festival bonus, in non-increasing score order.
C10_BasicScoringFallback ==
    (pc = "scored" /\ scorer = "_apply_basic_scoring") =>
        /\ Len(scored_items) = Len(items)
        /\ \E p \in Perms(Len(items)) :
               \A i \in 1..Len(items) : scored_items[i] = items[p[i]]
        /\ \A i \in 1..Len(scored_items) :
               scored_items[i].score =
                   <<Min(100, 50 + 20 * MatchCount(scored_items[i], interests))>>
        /\ \A i, j \in 1..Len(scored_items) :
               i < j => scored_items[i].score[1] >= scored_items[j].score[1]

C10_Witness ==
    /\ pc = "scored"
    /\ scorer = "_apply_basic_scoring"
    /\ weather.condition = <<sunny>>
    /\ Len(items) = 2
    /\ \E i \in 1..2 :
           /\ HasTag(scored_items[i], outdoor)
           /\ scored_items[i].type = "Food Festival"
           /\ MatchCount(scored_items[i], interests) = 3
           /\ scored_items[i].score = <<100>>
    /\ scored_items[1].score # scored_items[2].score

(***************************************************************************)
(* The cost estimator: get_price_estimates and calculate_trip_cost.        *)
(* Amounts are in cents; a regional multiplier is in tenths (1.4 is 14).   *)
(***************************************************************************)
MaxNights == 4
MaxTravelers == 3

\* str.split(',')[0]: the text before the first comma
RECURSIVE BeforeComma(_)
BeforeComma(s) ==
    IF s = <<>> \/ Head(s) = "," THEN <<>>
    ELSE <<Head(s)>> \o BeforeComma(Tail(s))

RECURSIVE LStrip(_)
LStrip(s) == IF s # <<>> /\ Head(s) = " " THEN LStrip(Tail(s)) ELSE s

RECURSIVE RStrip(_)
RStrip(s) ==
    IF s # <<>> /\ s[Len(s)] = " " THEN RStrip(SubSeq(s, 1, Len(s) - 1)) ELSE s

\* str.strip()
Strip(s) == RStrip(LStrip(s))

\* base_prices of get_price_estimates, in dollars per day (per night for lodging)
base_prices ==
    [meals |-> [low |-> 25, mid |-> 50, luxury |-> 100],
     activities |-> [low |-> 15, mid |-> 40, luxury |-> 80],
     transport |-> [low |-> 10, mid |-> 25, luxury |-> 60],
     lodging |-> [low |-> 40, mid |-> 100, luxury |-> 250]]

\* regional_multipliers of get_price_estimates, in the order of the dict
\* literal; "prague" is written twice
regional_multipliers ==
    << <<<<"p", "a", "r", "i", "s">>, 14>>, <<<<"l", "o", "n", "d", "o", "n">>, 13>>, <<<<"n", "e", "w", " ", "y", "o", "r", "k">>, 13>>,
       <<<<"t", "o", "k", "y", "o">>, 12>>, <<<<"s", "y", "d", "n", "e", "y">>, 12>>, <<<<"z", "u", "r", "i", "c", "h">>, 15>>,
       <<<<"o", "s", "l", "o">>, 14>>, <<<<"c", "o", "p", "e", "n", "h", "a", "g", "e", "n">>, 13>>, <<<<"s", "t", "o", "c", "k", "h", "o", "l", "m">>, 12>>,
       <<<<"r", "o", "m", "e">>, 10>>, <<<<"m", "a", "d", "r", "i", "d">>, 9>>, <<<<"b", "e", "r", "l", "i", "n">>, 9>>,
       <<<<"a", "m", "s", "t", "e", "r", "d", "a", "m">>, 11>>, <<<<"b", "a", "r", "c", "e", "l", "o", "n", "a">>, 9>>, <<<<"p", "r", "a", "g", "u", "e">>, 7>>,
       <<<<"b", "u", "d", "a", "p", "e", "s", "t">>, 6>>, <<<<"l", "i", "s", "b", "o", "n">>, 8>>, <<<<"a", "t", "h", "e", "n", "s">>, 7>>,
       <<<<"b", "a", "n", "g", "k", "o", "k">>, 4>>, <<<<"m", "e", "x", "i", "c", "o", " ", "c", "i", "t", "y">>, 5>>, <<<<"i", "s", "t", "a", "n", "b", "u", "l">>, 5>>,
       <<<<"c", "a", "i", "r", "o">>, 4>>, <<<<"d", "e", "l", "h", "i">>, 3>>, <<<<"l", "i", "m", "a">>, 5>>,
       <<<<"m", "a", "r", "r", "a", "k", "e", "c", "h">>, 5>>, <<<<"p", "r", "a", "g", "u", "e">>, 6>> >>

\* dict.get(key, default) on a dict literal: the last entry written for a key wins
DictGet(entries, key, default) ==
    LET hits == {i \in 1..Len(entries) : entries[i][1] = key}
    IN  IF hits = {} THEN default
        ELSE entries[CHOOSE i \in hits : \A j \in hits : j <= i][2]

\* destination.lower().split(',')[0].strip()
destination_key(dest) == Strip(BeforeComma(Lower(dest)))

Multiplier_exact_key(dest) == DictGet(regional_multipliers, dest, 10)

\* regional_multipliers.get(destination_key, 1.0)
Multiplier(dest) == DictGet(regional_multipliers, destination_key(dest), 10)

\* get_price_estimates(destination, ...)[category][tier], in cents
PriceEstimate(dest, category, tier) == base_prices[category][tier] * Multiplier(dest) * 10

BudgetLevels == DOMAIN base_prices.meals

\* days of calculate_trip_cost, line 126
TripDays(sd, ed) == strptime(ed) - strptime(sd) + 1

\* sum(d.values())
RECURSIVE SumValues(_)
SumValues(d) ==
    IF DOMAIN d = {} THEN 0
    ELSE LET k == CHOOSE x \in DOMAIN d : TRUE
         IN  d[k] + SumValues([x \in DOMAIN d \ {k} |-> d[x]])

Nights_as_days(d) == d

\* nights of calculate_trip_cost, line 127
Nights(d) == d - 1

Miscellaneous_before_lodging(cb) == ((SumValues(cb) - (IF "lodging" \in DOMAIN cb THEN cb["lodging"] ELSE 0)) * 10) \div 100

\* subtotal * 0.1, lines 143-144
Miscellaneous(cb) == (SumValues(cb) * 10) \div 100

\* calculate_trip_cost, lines 123-146, for a budget_level of base_prices
CostBreakdown(dest, sd, ed, tier, n, lodging) ==
    LET d == TripDays(sd, ed)
        daily == [c \in {"meals", "activities", "transport"} |->
                     PriceEstimate(dest, c, tier) * d * n]
        with_lodging ==
            IF lodging
            THEN [c \in DOMAIN daily \cup {"lodging"} |->
                     IF c = "lodging"
                     THEN PriceEstimate(dest, "lodging", tier) * Nights(d) * n
                     ELSE daily[c]]
            ELSE daily
    IN  [c \in DOMAIN with_lodging \cup {"miscellaneous"} |->
            IF c = "miscellaneous" THEN Miscellaneous(with_lodging) ELSE with_lodging[c]]

ParisFrance == <<"P", "a", "r", "i", "s", ",", " ", "F", "r", "a", "n", "c", "e">>
LisbonPortugal == <<" ", "L", "I", "S", "B", "O", "N", " ", ",", "P", "o", "r", "t", "u", "g", "a", "l">>
Atlantis == <<"A", "t", "l", "a", "n", "t", "i", "s">>
Prague == <<"p", "r", "a", "g", "u", "e">>
NewYorkCity == <<"N", "e", "w", " ", "Y", "o", "r", "k", " ", "C", "i", "t", "y">>

CostDestinations == {ParisFrance, LisbonPortugal, Atlantis, Prague, NewYorkCity}

CostStartDates == {<<2025, 9, 1>>, <<2024, 2, 28>>}

\* the budget_level strings a caller passes: the three tiers and one that is
\* not a key of base_prices
CallerBudgetLevels == BudgetLevels \cup {"premium"}

OptimizerUnused ==
    /\ available_activities = <<>>
    /\ available_restaurants = <<>>
    /\ day = 0
    /\ used_activities = {}
    /\ used_restaurants = {}
    /\ itinerary = <<>>
    /\ locals = <<>>

PlanTripIdle ==
    /\ AppIdle
    /\ festivals_events = <<>>
    /\ scored_restaurants = <<>>
    /\ scored_activities = <<>>
    /\ confidence_score = None
    /\ trip_plan = None
    /\ stages = <<>>
    /\ emitted = <<>>

\* A call of calculate_trip_cost.
CostInit ==
    /\ pc = "cost_call"
    /\ destination \in CostDestinations
    /\ start_date \in CostStartDates
    /\ \E n \in (0 - 2)..MaxNights : end_date = strftime(strptime(start_date) + n)
    /\ budget_level \in CallerBudgetLevels
    /\ num_travelers \in 1..MaxTravelers
    /\ include_lodging \in BOOLEAN
    /\ origin_city = <<>>
    /\ cost_breakdown = None
    /\ total_cost = None
    /\ route_estimates = None
    /\ travel_comparison = None
    /\ error = None
    /\ OptimizerUnused
    /\ ScorerIdle
    /\ PlanTripIdle

\* calculate_trip_cost returns, line 146
CalculateTripCost ==
    /\ pc = "cost_call"
    /\ budget_level \in BudgetLevels
    /\ cost_breakdown' = <<CostBreakdown(destination, start_date, end_date,
                                         budget_level, num_travelers, include_lodging)>>
    /\ pc' = "cost_done"
    /\ UNCHANGED <<total_cost, error>>
    /\ UNCHANGED <<tripArgs, planTripVars, travelVars>>
    /\ UNCHANGED optimizerVars
    /\ UNCHANGED scorerVars

\* prices["meals"][budget_level] raises KeyError, line 134
CalculateTripCostRaises ==
    /\ pc = "cost_call"
    /\ budget_level \notin BudgetLevels
    /\ error' = <<"KeyError">>
    /\ pc' = "cost_error"
    /\ UNCHANGED <<cost_breakdown, total_cost>>
    /\ UNCHANGED <<tripArgs, planTripVars, travelVars>>
    /\ UNCHANGED optimizerVars
    /\ UNCHANGED scorerVars

\* total_cost = sum(cost_breakdown.values()), plan_trip line 652
SumCostBreakdown ==
    /\ pc = "cost_done"
    /\ total_cost' = <<SumValues(cost_breakdown[1])>>
    /\ pc' = "cost_summed"
    /\ UNCHANGED <<cost_breakdown, error>>
    /\ UNCHANGED <<tripArgs, planTripVars, travelVars>>
    /\ UNCHANGED optimizerVars
    /\ UNCHANGED scorerVars

CostNext == CalculateTripCost \/ CalculateTripCostRaises \/ SumCostBreakdown

CostSpec == CostInit /\ [][CostNext]_vars

(***************************************************************************)
(* Properties of the cost estimator.                                       *)
(***************************************************************************)
CostReturned == pc \in {"cost_done", "cost_summed"}

\* the number of calendar days from start_date to end_date, both included;
\* zero or negative when end_date is before start_date
CalendarDays ==
    IF DateStrLeq(start_date, end_date)
    THEN Cardinality(DatesFrom(start_date, end_date))
    ELSE 2 - Cardinality(DatesFrom(end_date, start_date))

\* the multiplier, in tenths, that each destination of the model is to get:
\* "paris" is 1.4, "lisbon" 0.8, "prague" 0.6 (the later of its two entries),
\* and "atlantis" and "new york city" are not keys of the table
ExpectedMultiplier ==
    CASE destination = ParisFrance -> 14
      [] destination = LisbonPortugal -> 8
      [] destination = Prague -> 6
      [] destination = Atlantis -> 10
      [] destination = NewYorkCity -> 10

\* rate(tier, category) x multiplier x units x party_size, in cents
ExpectedAmount(category, units) ==
    base_prices[category][budget_level] * ExpectedMultiplier * units * num_travelers * 10

\* C11: every breakdown returned by calculate_trip_cost has meals, activities
\* and transport equal to rate(tier, category) x multiplier x days x
\* party_size, where days counts both end dates and the multiplier is that of
\* the lowercased, trimmed text before the first comma of the destination (1.0
\* when it is not a key); for 'Paris, France', 2025-09-01..2025-09-05, mid,
\* 2 travelers the amounts are the mid rates x 1.4 x 5 x 2.
C11_DailyCategories ==
    CostReturned =>
        /\ \A c \in {"meals", "activities", "transport"} :
               cost_breakdown[1][c] = ExpectedAmount(c, CalendarDays)
        /\ (/\ destination = ParisFrance
            /\ start_date = <<2025, 9, 1>>
            /\ end_date = <<2025, 9, 5>>
            /\ budget_level = "mid"
            /\ num_travelers = 2)
           => /\ cost_breakdown[1]["meals"] = 70000
              /\ cost_breakdown[1]["activities"] = 56000
              /\ cost_breakdown[1]["transport"] = 35000

C11_Witness ==
    /\ pc = "cost_done"
    /\ destination = ParisFrance
    /\ start_date = <<2025, 9, 1>>
    /\ end_date = <<2025, 9, 5>>
    /\ budget_level = "mid"
    /\ num_travelers = 2
    /\ cost_breakdown[1]["meals"] = 70000

\* the sum of the categories of the breakdown other than miscellaneous
OtherCategories ==
    LET cb == cost_breakdown[1]
    IN  cb["meals"] + cb["activities"] + cb["transport"]
            + (IF "lodging" \in DOMAIN cb THEN cb["lodging"] ELSE 0)

\* C12: in every breakdown returned by calculate_trip_cost miscellaneous is
\* 10% of the sum of the other categories present, and the total computed
\* from the breakdown is the sum of all its entries, 1.1 times that sum.
C12_MiscellaneousAndTotal ==
    /\ CostReturned => 10 * cost_breakdown[1]["miscellaneous"] = OtherCategories
    /\ pc = "cost_summed" =>
           /\ total_cost[1] = OtherCategories + cost_breakdown[1]["miscellaneous"]
           /\ 10 * total_cost[1] = 11 * OtherCategories

C12_Witness ==
    /\ pc = "cost_summed"
    /\ include_lodging
    /\ cost_breakdown[1]["lodging"] > 0
    /\ cost_breakdown[1]["miscellaneous"] > 0
    /\ total_cost[1] > OtherCategories

\* C13: the breakdown returned by calculate_trip_cost has a lodging entry
\* exactly when include_lodging is true; the entry is rate(tier, lodging) x
\* multiplier x (days - 1) x party_size, which is 0 for a same-day trip.
C13_LodgingEntry ==
    CostReturned =>
        /\ ("lodging" \in DOMAIN cost_breakdown[1]) <=> include_lodging
        /\ include_lodging =>
               /\ cost_breakdown[1]["lodging"] = ExpectedAmount("lodging", CalendarDays - 1)
               /\ start_date = end_date => cost_breakdown[1]["lodging"] = 0

C13_Witness ==
    /\ pc = "cost_done"
    /\ include_lodging
    /\ start_date = end_date
    /\ cost_breakdown[1]["lodging"] = 0
    /\ cost_breakdown[1]["meals"] > 0

(***************************************************************************)
(* The travel comparison: get_driving_distance, calculate_driving_cost,    *)
(* get_flight_cost and compare_travel_options.  Amounts are in thousandths *)
(* of a dollar and times in 1/130 of an hour, the units in which every     *)
(* figure of the code, 300 / 65 hours included, is a whole number.         *)
(***************************************************************************)
\* distance_data of get_driving_distance
distance_data ==
    << <<<<"n", "e", "w", " ", "y", "o", "r", "k", "-", "w", "a", "s", "h", "i", "n", "g", "t", "o", "n", " ", "d", "c">>, [miles |-> 225, hours |-> 585]>>,
       <<<<"l", "o", "s", " ", "a", "n", "g", "e", "l", "e", "s", "-", "s", "a", "n", " ", "f", "r", "a", "n", "c", "i", "s", "c", "o">>, [miles |-> 380, hours |-> 780]>>,
       <<<<"c", "h", "i", "c", "a", "g", "o", "-", "d", "e", "t", "r", "o", "i", "t">>, [miles |-> 280, hours |-> 585]>>,
       <<<<"m", "i", "a", "m", "i", "-", "o", "r", "l", "a", "n", "d", "o">>, [miles |-> 235, hours |-> 455]>>,
       <<<<"s", "e", "a", "t", "t", "l", "e", "-", "p", "o", "r", "t", "l", "a", "n", "d">>, [miles |-> 173, hours |-> 390]>>,
       <<<<"b", "o", "s", "t", "o", "n", "-", "p", "h", "i", "l", "a", "d", "e", "l", "p", "h", "i", "a">>, [miles |-> 300, hours |-> 650]>>,
       <<<<"d", "a", "l", "l", "a", "s", "-", "h", "o", "u", "s", "t", "o", "n">>, [miles |-> 240, hours |-> 455]>>,
       <<<<"a", "t", "l", "a", "n", "t", "a", "-", "c", "h", "a", "r", "l", "o", "t", "t", "e">>, [miles |-> 245, hours |-> 520]>> >>

\* flight_data of get_flight_cost, prices in dollars
flight_data ==
    << <<<<"n", "e", "w", " ", "y", "o", "r", "k", "-", "w", "a", "s", "h", "i", "n", "g", "t", "o", "n", " ", "d", "c">>, [price |-> 180, duration |-> 195]>>,
       <<<<"l", "o", "s", " ", "a", "n", "g", "e", "l", "e", "s", "-", "s", "a", "n", " ", "f", "r", "a", "n", "c", "i", "s", "c", "o">>, [price |-> 120, duration |-> 195]>>,
       <<<<"c", "h", "i", "c", "a", "g", "o", "-", "d", "e", "t", "r", "o", "i", "t">>, [price |-> 160, duration |-> 156]>>,
       <<<<"m", "i", "a", "m", "i", "-", "o", "r", "l", "a", "n", "d", "o">>, [price |-> 90, duration |-> 130]>>,
       <<<<"s", "e", "a", "t", "t", "l", "e", "-", "p", "o", "r", "t", "l", "a", "n", "d">>, [price |-> 110, duration |-> 130]>>,
       <<<<"b", "o", "s", "t", "o", "n", "-", "p", "h", "i", "l", "a", "d", "e", "l", "p", "h", "i", "a">>, [price |-> 150, duration |-> 195]>>,
       <<<<"d", "a", "l", "l", "a", "s", "-", "h", "o", "u", "s", "t", "o", "n">>, [price |-> 140, duration |-> 156]>>,
       <<<<"a", "t", "l", "a", "n", "t", "a", "-", "c", "h", "a", "r", "l", "o", "t", "t", "e">>, [price |-> 130, duration |-> 130]>> >>

\* f"{a.lower()}-{b.lower()}"
RouteKey(a, b) == Lower(a) \o <<"-">> \o Lower(b)

\* the search_key / reverse_key / default cascade of both lookups
RouteLookup(table, origin, dest, default) ==
    DictGet(table, RouteKey(origin, dest), DictGet(table, RouteKey(dest, origin), default))

\* get_driving_distance, lines 158-183: 300 miles at 65 mph by default
get_driving_distance(origin, dest) ==
    RouteLookup(distance_data, origin, dest, [miles |-> 300, hours |-> (300 * 130) \div 65])

\* base_price and duration of get_flight_cost, lines 221-243
FlightFare(origin, dest) ==
    RouteLookup(flight_data, origin, dest, [price |-> 200, duration |-> 325])

\* calculate_driving_cost, lines 190-209, with mpg = 25 and gas_price = 3.50;
\* total_per_person is kept as the pair of dividend and divisor
calculate_driving_cost(distance_miles, n) ==
    LET total_miles == distance_miles * 2
        total_gas_cost == (total_miles * 3500) \div 25
        wear_cost == total_miles * 100
        estimated_tolls == Min(50000, distance_miles * 50)
        parking_cost == (25000 * distance_miles) \div 200
        total == total_gas_cost + wear_cost + estimated_tolls + parking_cost
    IN  [gas_cost |-> total_gas_cost,
         wear_and_tear |-> wear_cost,
         tolls |-> estimated_tolls,
         parking |-> parking_cost,
         total_per_group |-> total,
         total_per_person |-> <<total, n>>]

FlightCost_one_ticket(fare, n) ==
    LET round_trip_price == fare.price * 1000 * 2
    IN  [price_per_person |-> round_trip_price,
         total_cost |-> round_trip_price,
         flight_duration |-> fare.duration,
         total_travel_time |-> fare.duration + 2 * 130]

\* the result of get_flight_cost, lines 245-257
FlightCost(fare, n) ==
    LET round_trip_price == fare.price * 1000 * 2
    IN  [price_per_person |-> round_trip_price,
         total_cost |-> round_trip_price * n,
         flight_duration |-> fare.duration,
         total_travel_time |-> fare.duration + 2 * 130]

Abs(x) == IF x < 0 THEN 0 - x ELSE x

SignificantlyCheaper_or_equal(a, b) == a <= b - 100 * 1000

\* a < b - 100, lines 391 and 394
SignificantlyCheaper(a, b) == a < b - 100 * 1000

\* a < b - 4, line 397
MuchFaster(a, b) == a < b - 4 * 130

\* the recommendation of compare_travel_options, lines 387-412
Recommendation(driving, flying, n) ==
    LET choice ==
            IF SignificantlyCheaper(driving.total_cost, flying.total_cost)
            THEN <<"driving", "significantly cheaper">>
            ELSE IF SignificantlyCheaper(flying.total_cost, driving.total_cost)
            THEN <<"flying", "significantly cheaper">>
            ELSE IF MuchFaster(flying.total_time_hours, driving.total_time_hours)
            THEN <<"flying", "much faster">>
            ELSE IF n >= 3
            THEN <<"driving", "better value for larger groups">>
            ELSE <<"flying", "better convenience and time savings">>
    IN  [preferred |-> choice[1],
         reason |-> choice[2],
         cost_difference |-> Abs(driving.total_cost - flying.total_cost),
         time_difference |-> Abs(driving.total_time_hours - flying.total_time_hours)]

\* the comparison dict of compare_travel_options, lines 356-414, from what the
\* two lookups gave; the fixed pros and cons lists are left out
Comparison(estimates, n) ==
    LET driving_info == estimates.driving_info
        driving_costs == calculate_driving_cost(driving_info.miles, n)
        flight_info == FlightCost(estimates.fare, n)
        driving == [distance_miles |-> driving_info.miles,
                    drive_time_hours |-> driving_info.hours,
                    total_time_hours |-> driving_info.hours * 2,
                    cost_breakdown |-> driving_costs,
                    total_cost |-> driving_costs.total_per_group,
                    cost_per_person |-> driving_costs.total_per_person,
                    convenience_score |-> 7]
        flying == [flight_duration_hours |-> flight_info.flight_duration,
                   total_time_hours |-> flight_info.total_travel_time * 2,
                   cost_per_person |-> flight_info.price_per_person,
                   total_cost |-> flight_info.total_cost,
                   convenience_score |-> 8]
    IN  [driving |-> driving,
         flying |-> flying,
         recommendation |-> Recommendation(driving, flying, n)]

\* the estimates compare_travel_options works from, lines 356-361
RouteEstimates(origin, dest) ==
    [driving_info |-> get_driving_distance(origin, dest), fare |-> FlightFare(origin, dest)]

Charleston == <<"C", "h", "a", "r", "l", "e", "s", "t", "o", "n">>
StThomas == <<"S", "t", " ", "T", "h", "o", "m", "a", "s">>

\* the cities of the two route tables, as a caller writes them, and two
\* cities of no listed route
TravelCities ==
    { <<"N", "e", "w", " ", "Y", "o", "r", "k">>, <<"W", "a", "s", "h", "i", "n", "g", "t", "o", "n", " ", "D", "C">>, <<"L", "o", "s", " ", "A", "n", "g", "e", "l", "e", "s">>, <<"S", "a", "n", " ", "F", "r", "a", "n", "c", "i", "s", "c", "o">>,
      <<"C", "h", "i", "c", "a", "g", "o">>, <<"D", "e", "t", "r", "o", "i", "t">>, <<"M", "i", "a", "m", "i">>, <<"O", "r", "l", "a", "n", "d", "o">>, <<"S", "e", "a", "t", "t", "l", "e">>,
      <<"P", "o", "r", "t", "l", "a", "n", "d">>, <<"B", "o", "s", "t", "o", "n">>, <<"P", "h", "i", "l", "a", "d", "e", "l", "p", "h", "i", "a">>, <<"D", "a", "l", "l", "a", "s">>, <<"H", "o", "u", "s", "t", "o", "n">>,
      <<"A", "t", "l", "a", "n", "t", "a">>, <<"C", "h", "a", "r", "l", "o", "t", "t", "e">>, Charleston, StThomas }

\* distances and fares outside the two tables, for the arithmetic of
\* calculate_driving_cost (its distance_miles is any number) and for the
\* thresholds of the recommendation: at 400 miles driving costs 262 dollars,
\* which is 100 below a fare of 181 and 100 above a fare of 81 for one
\* traveler; 5 hours of driving each way is 4 hours over a 1 hour flight;
\* 1200 miles is past the cap of the tolls
OtherEstimates ==
    [driving_info : [miles : {400, 1200}, hours : {5 * 130, 6 * 130}],
     fare : [price : {27, 81, 181}, duration : {130}]]

CostIdle ==
    /\ budget_level = "mid"
    /\ include_lodging = TRUE
    /\ cost_breakdown = None
    /\ total_cost = None

\* A call of compare_travel_options, or of its steps after the lookups.
TravelInit ==
    /\ \/ /\ pc = "travel_call"
          /\ origin_city \in TravelCities
          /\ destination \in TravelCities
          /\ route_estimates = None
       \/ /\ pc = "estimates_call"
          /\ origin_city = <<>>
          /\ destination = <<>>
          /\ route_estimates \in {<<e>> : e \in OtherEstimates}
    /\ num_travelers \in 1..MaxTravelers
    /\ travel_comparison = None
    /\ error = None
    /\ CostIdle
    /\ OptimizerIdle
    /\ ScorerIdle
    /\ PlanTripIdle

\* compare_travel_options, lines 352-414
CompareTravelOptions ==
    /\ pc = "travel_call"
    /\ route_estimates' = <<RouteEstimates(origin_city, destination)>>
    /\ travel_comparison' = <<Comparison(route_estimates'[1], num_travelers)>>
    /\ pc' = "travel_done"
    /\ UNCHANGED <<cost_breakdown, total_cost, error>>
    /\ UNCHANGED <<tripArgs, planTripVars>>
    /\ UNCHANGED optimizerVars
    /\ UNCHANGED scorerVars

\* compare_travel_options, lines 358-414, from given estimates
CompareEstimates ==
    /\ pc = "estimates_call"
    /\ travel_comparison' = <<Comparison(route_estimates[1], num_travelers)>>
    /\ pc' = "estimates_done"
    /\ UNCHANGED <<cost_breakdown, total_cost, error, route_estimates>>
    /\ UNCHANGED <<tripArgs, planTripVars>>
    /\ UNCHANGED optimizerVars
    /\ UNCHANGED scorerVars

TravelNext == CompareTravelOptions \/ CompareEstimates

TravelSpec == TravelInit /\ [][TravelNext]_vars

(***************************************************************************)
(* Properties of the travel comparison.                                    *)
(***************************************************************************)
TravelReturned == pc \in {"travel_done", "estimates_done"}

\* driving total cost minus flying total cost, in thousandths of a dollar
CostGap == travel_comparison[1].driving.total_cost - travel_comparison[1].flying.total_cost

\* driving total time minus flying total time, in 1/130 hours
TimeGap ==
    travel_comparison[1].driving.total_time_hours
        - travel_comparison[1].flying.total_time_hours

Preferred == travel_comparison[1].recommendation.preferred

Reason == travel_comparison[1].recommendation.reason

\* C16: compare_travel_options recommends by the first rule that applies:
\* driving, 'significantly cheaper', when driving costs more than 100 less
\* than flying; else flying, 'significantly cheaper', when flying costs more
\* than 100 less than driving; else flying, 'much faster', when flying takes
\* more than 4 hours less; else driving for a party of 3 or more; else flying.
\* The result is one of driving and flying, and a gap of exactly 100 or of
\* exactly 4 hours does not trigger its rule.
C16_RecommendationRules ==
    TravelReturned =>
        /\ Preferred \in {"driving", "flying"}
        /\ CostGap < 0 - 100000 =>
               Preferred = "driving" /\ Reason = "significantly cheaper"
        /\ (CostGap >= 0 - 100000 /\ CostGap > 100000) =>
               Preferred = "flying" /\ Reason = "significantly cheaper"
        /\ (CostGap >= 0 - 100000 /\ CostGap <= 100000 /\ TimeGap > 4 * 130) =>
               Preferred = "flying" /\ Reason = "much faster"
        /\ (CostGap >= 0 - 100000 /\ CostGap <= 100000 /\ TimeGap <= 4 * 130) =>
               IF num_travelers >= 3
               THEN Preferred = "driving" /\ Reason = "better value for larger groups"
               ELSE Preferred = "flying" /\ Reason = "better convenience and time savings"
        /\ CostGap \in {0 - 100000, 100000} => Reason # "significantly cheaper"
        /\ TimeGap = 4 * 130 => Reason # "much faster"

\* Atlanta to Charlotte for one traveler: driving is 99.525 cheaper and 2
\* hours slower, so no threshold is passed and flying is the default
C16_Witness ==
    /\ pc = "travel_done"
    /\ origin_city = <<"A", "t", "l", "a", "n", "t", "a">>
    /\ destination = <<"C", "h", "a", "r", "l", "o", "t", "t", "e">>
    /\ num_travelers = 1
    /\ CostGap = 0 - 99525
    /\ TimeGap = 2 * 130
    /\ Preferred = "flying"
    /\ Reason = "better convenience and time savings"

\* C17: for origin 'Charleston' and destination 'St Thomas' the comparison
\* marks driving as unavailable and recommends flying, for every party size.
C17_FlightOnlyDestination ==
    (pc = "travel_done" /\ origin_city = Charleston /\ destination = StThomas) =>
        /\ "available" \in DOMAIN travel_comparison[1].driving
        /\ travel_comparison[1].driving.available = FALSE
        /\ Preferred = "flying"

(***************************************************************************)
(* plan_trip (planner.py): the data it works from.                         *)
(***************************************************************************)
\* restaurants of plan_trip, lines 575-583 (the cuisine is not modelled)
restaurants ==
    << Item(<<"L", "o", "c", "a", "l", " ", "B", "i", "s", "t", "r", "o">>, "None",
            <<<<"f", "o", "o", "d">>, <<"f", "i", "n", "e", " ", "d", "i", "n", "i", "n", "g">>>>, 45, None, None),
       Item(<<"S", "t", "r", "e", "e", "t", " ", "F", "o", "o", "d", " ", "M", "a", "r", "k", "e", "t">>, "None",
            <<<<"f", "o", "o", "d">>, <<"c", "a", "s", "u", "a", "l">>, <<"o", "u", "t", "d", "o", "o", "r">>>>, 42, None, None),
       Item(<<"H", "i", "s", "t", "o", "r", "i", "c", " ", "T", "a", "v", "e", "r", "n">>, "None",
            <<<<"h", "i", "s", "t", "o", "r", "y">>, <<"f", "o", "o", "d">>, <<"i", "n", "d", "o", "o", "r">>>>, 43, None, None),
       Item(<<"R", "o", "o", "f", "t", "o", "p", " ", "R", "e", "s", "t", "a", "u", "r", "a", "n", "t">>, "None",
            <<<<"f", "o", "o", "d">>, <<"f", "i", "n", "e", " ", "d", "i", "n", "i", "n", "g">>, <<"o", "u", "t", "d", "o", "o", "r">>, <<"v", "i", "e", "w", "s">>>>, 46, None, None),
       Item(<<"E", "t", "h", "n", "i", "c", " ", "F", "u", "s", "i", "o", "n", " ", "C", "a", "f", "e">>, "None",
            <<<<"f", "o", "o", "d">>, <<"c", "a", "s", "u", "a", "l">>, <<"c", "u", "l", "t", "u", "r", "e">>>>, 41, None, None),
       Item(<<"S", "e", "a", "f", "o", "o", "d", " ", "G", "r", "i", "l", "l">>, "None",
            <<<<"f", "o", "o", "d">>, <<"f", "i", "n", "e", " ", "d", "i", "n", "i", "n", "g">>, <<"f", "r", "e", "s", "h">>>>, 44, None, None),
       Item(<<"L", "o", "c", "a", "l", " ", "P", "i", "z", "z", "a", " ", "J", "o", "i", "n", "t">>, "None",
            <<<<"f", "o", "o", "d">>, <<"c", "a", "s", "u", "a", "l">>, <<"f", "a", "m", "i", "l", "y">>>>, 40, None, None) >>

\* activities of plan_trip, lines 598-611
activities ==
    << Item(<<"C", "i", "t", "y", " ", "M", "u", "s", "e", "u", "m">>, "Cultural",
            <<<<"h", "i", "s", "t", "o", "r", "y">>, <<"i", "n", "d", "o", "o", "r">>, <<"c", "u", "l", "t", "u", "r", "e">>>>, 44, None, None),
       Item(<<"F", "o", "o", "d", " ", "W", "a", "l", "k", "i", "n", "g", " ", "T", "o", "u", "r">>, "Tour",
            <<<<"f", "o", "o", "d">>, <<"o", "u", "t", "d", "o", "o", "r">>, <<"w", "a", "l", "k", "i", "n", "g">>>>, 46, None, None),
       Item(<<"C", "o", "n", "c", "e", "r", "t", " ", "H", "a", "l", "l">>, "Entertainment",
            <<<<"m", "u", "s", "i", "c">>, <<"i", "n", "d", "o", "o", "r">>, <<"e", "n", "t", "e", "r", "t", "a", "i", "n", "m", "e", "n", "t">>>>, 43, None, None),
       Item(<<"L", "o", "c", "a", "l", " ", "M", "a", "r", "k", "e", "t">>, "Shopping",
            <<<<"f", "o", "o", "d">>, <<"o", "u", "t", "d", "o", "o", "r">>, <<"c", "u", "l", "t", "u", "r", "e">>>>, 41, None, None),
       Item(<<"A", "r", "t", " ", "G", "a", "l", "l", "e", "r", "y">>, "Cultural",
            <<<<"a", "r", "t">>, <<"i", "n", "d", "o", "o", "r">>, <<"c", "u", "l", "t", "u", "r", "e">>>>, 45, None, None),
       Item(<<"S", "c", "e", "n", "i", "c", " ", "P", "a", "r", "k">>, "Nature",
            <<<<"n", "a", "t", "u", "r", "e">>, <<"o", "u", "t", "d", "o", "o", "r">>, <<"w", "a", "l", "k", "i", "n", "g">>>>, 42, None, None),
       Item(<<"H", "i", "s", "t", "o", "r", "i", "c", " ", "A", "r", "c", "h", "i", "t", "e", "c", "t", "u", "r", "e", " ", "T", "o", "u", "r">>, "Tour",
            <<<<"h", "i", "s", "t", "o", "r", "y">>, <<"o", "u", "t", "d", "o", "o", "r">>, <<"c", "u", "l", "t", "u", "r", "e">>>>, 43, None, None),
       Item(<<"C", "o", "o", "k", "i", "n", "g", " ", "C", "l", "a", "s", "s">>, "Experience",
            <<<<"f", "o", "o", "d">>, <<"i", "n", "d", "o", "o", "r">>, <<"h", "a", "n", "d", "s", "-", "o", "n">>>>, 47, None, None),
       Item(<<"B", "o", "a", "t", " ", "T", "o", "u", "r">>, "Tour",
            <<<<"w", "a", "t", "e", "r">>, <<"o", "u", "t", "d", "o", "o", "r">>, <<"s", "c", "e", "n", "i", "c">>>>, 44, None, None),
       Item(<<"L", "o", "c", "a", "l", " ", "B", "r", "e", "w", "e", "r", "y">>, "Entertainment",
            <<<<"d", "r", "i", "n", "k", "s">>, <<"i", "n", "d", "o", "o", "r">>, <<"s", "o", "c", "i", "a", "l">>>>, 42, None, None),
       Item(<<"S", "h", "o", "p", "p", "i", "n", "g", " ", "D", "i", "s", "t", "r", "i", "c", "t">>, "Shopping",
            <<<<"s", "h", "o", "p", "p", "i", "n", "g">>, <<"i", "n", "d", "o", "o", "r">>, <<"v", "a", "r", "i", "e", "t", "y">>>>, 39, None, None),
       Item(<<"O", "b", "s", "e", "r", "v", "a", "t", "o", "r", "y">>, "Educational",
            <<<<"s", "c", "i", "e", "n", "c", "e">>, <<"i", "n", "d", "o", "o", "r">>, <<"v", "i", "e", "w", "s">>>>, 43, None, None) >>

\* festival_templates of get_festivals_and_events, lines 272-321; the name of
\* the first is "{destination} Food Festival"
festival_templates ==
    << [name |-> <<"{destination}", " ", "F", "o", "o", "d", " ", "F", "e", "s", "t", "i", "v", "a", "l">>, type |-> "Food Festival",
        tags |-> <<<<"f", "o", "o", "d">>, <<"o", "u", "t", "d", "o", "o", "r">>, <<"c", "u", "l", "t", "u", "r", "e">>, <<"f", "e", "s", "t", "i", "v", "a", "l">>>>,
        rating |-> 45, duration_days |-> 3],
       [name |-> <<"S", "u", "m", "m", "e", "r", " ", "M", "u", "s", "i", "c", " ", "F", "e", "s", "t", "i", "v", "a", "l">>, type |-> "Music Festival",
        tags |-> <<<<"m", "u", "s", "i", "c">>, <<"o", "u", "t", "d", "o", "o", "r">>, <<"e", "n", "t", "e", "r", "t", "a", "i", "n", "m", "e", "n", "t">>, <<"f", "e", "s", "t", "i", "v", "a", "l">>>>,
        rating |-> 46, duration_days |-> 2],
       [name |-> <<"A", "r", "t", " ", "&", " ", "C", "u", "l", "t", "u", "r", "e", " ", "W", "e", "e", "k">>, type |-> "Cultural Event",
        tags |-> <<<<"a", "r", "t">>, <<"c", "u", "l", "t", "u", "r", "e">>, <<"i", "n", "d", "o", "o", "r">>, <<"o", "u", "t", "d", "o", "o", "r">>, <<"f", "e", "s", "t", "i", "v", "a", "l">>>>,
        rating |-> 43, duration_days |-> 7],
       [name |-> <<"H", "i", "s", "t", "o", "r", "i", "c", " ", "H", "e", "r", "i", "t", "a", "g", "e", " ", "D", "a", "y", "s">>, type |-> "Heritage Festival",
        tags |-> <<<<"h", "i", "s", "t", "o", "r", "y">>, <<"c", "u", "l", "t", "u", "r", "e">>, <<"o", "u", "t", "d", "o", "o", "r">>, <<"f", "e", "s", "t", "i", "v", "a", "l">>>>,
        rating |-> 42, duration_days |-> 2],
       [name |-> <<"N", "i", "g", "h", "t", " ", "M", "a", "r", "k", "e", "t", " ", "F", "e", "s", "t", "i", "v", "a", "l">>, type |-> "Night Market",
        tags |-> <<<<"f", "o", "o", "d">>, <<"s", "h", "o", "p", "p", "i", "n", "g">>, <<"o", "u", "t", "d", "o", "o", "r">>, <<"e", "v", "e", "n", "i", "n", "g">>, <<"f", "e", "s", "t", "i", "v", "a", "l">>>>,
        rating |-> 44, duration_days |-> 1],
       [name |-> <<"S", "e", "a", "s", "o", "n", "a", "l", " ", "F", "l", "o", "w", "e", "r", " ", "F", "e", "s", "t", "i", "v", "a", "l">>, type |-> "Nature Festival",
        tags |-> <<<<"n", "a", "t", "u", "r", "e">>, <<"o", "u", "t", "d", "o", "o", "r">>, <<"p", "h", "o", "t", "o", "g", "r", "a", "p", "h", "y">>, <<"f", "e", "s", "t", "i", "v", "a", "l">>>>,
        rating |-> 41, duration_days |-> 14] >>

(***************************************************************************)
(* plan_trip (planner.py).  What it yields is recorded as a sequence of    *)
(* message kinds, and the confidence score as a fraction num / den of      *)
(* hundredths.                                                             *)
(***************************************************************************)
\* template["name"].replace("{destination}", text)
RECURSIVE ReplaceDestination(_, _)
ReplaceDestination(name, text) ==
    IF name = <<>> THEN <<>>
    ELSE (IF Head(name) = "{destination}" THEN text ELSE <<Head(name)>>)
             \o ReplaceDestination(Tail(name), text)

\* the festival built from a template, lines 341-345
Festival(template, dest, sd, offset) ==
    Item(ReplaceDestination(template.name, BeforeComma(dest)), template.type,
         template.tags, template.rating,
         <<strftime(strptime(sd) + offset)>>,
         <<strftime(strptime(sd) + offset + template.duration_days - 1)>>)

\* the loop body of get_festivals_and_events for one selected template, lines
\* 332-347: nothing when the festival does not fit, else any start offset
FestivalOptions(template, dest, sd, ed) ==
    LET trip_days == strptime(ed) - strptime(sd) + 1
    IN  IF trip_days >= template.duration_days
        THEN {<<Festival(template, dest, sd, offset)>> :
                  offset \in 0..(trip_days - template.duration_days)}
        ELSE {<<>>}

\* get_festivals_and_events, lines 324-349: no festival, or the festivals of
\* a random sample of one or two templates
FestivalOutcomes(dest, sd, ed) ==
    LET T == 1..Len(festival_templates)
        Opt(t) == FestivalOptions(festival_templates[t], dest, sd, ed)
    IN  {<<>>}
          \cup UNION {Opt(t) : t \in T}
          \cup UNION {{a \o b : a \in Opt(t[1]), b \in Opt(t[2])} :
                         t \in {u \in T \X T : u[1] # u[2]}}

\* function_tool_evaluator, lines 420-445, as a function of its arguments
function_tool_evaluator(its, ints, w) ==
    SortedByScore([i \in 1..Len(its) |-> WithScore(its[i], EvaluatorScore(its[i], ints, w))])

\* sum(item['score'] for item in s)
RECURSIVE SumScores(_)
SumScores(s) == IF s = <<>> THEN 0 ELSE Head(s).score[1] + SumScores(Tail(s))

\* sum(...) / len(s) if s else 0, lines 643-644
Average(s) ==
    IF s # <<>> THEN [num |-> SumScores(s), den |-> Len(s)] ELSE [num |-> 0, den |-> 1]

\* confidence_score of plan_trip, lines 643-645
Confidence(acts, rests) ==
    LET a == Average(acts)
        r == Average(rests)
    IN  [num |-> a.num * r.den + r.num * a.den, den |-> 2 * a.den * r.den]

BelowThreshold_half(c) == c.num < 50 * c.den

\* confidence_score < 0.7, line 666
BelowThreshold(c) == c.num < 70 * c.den

CharlestonSC == <<"C", "h", "a", "r", "l", "e", "s", "t", "o", "n", ",", " ", "S", "C">>

\* the interest lists of the calls: none, and those of test_planning.py
PlanInterests ==
    {<<>>, <<food, <<"h", "i", "s", "t", "o", "r", "y">>, <<"c", "u", "l", "t", "u", "r", "e">>>>}

\* A call of plan_trip, for the destination and the party of test_planning.py.
PlanInit ==
    /\ pc = "plan_call"
    /\ destination = CharlestonSC
    /\ origin_city \in {<<>>, <<"A", "t", "l", "a", "n", "t", "a">>}
    /\ start_date = <<2025, 8, 15>>
    /\ \E n \in (0 - 2)..(MaxDays - 1) : end_date = strftime(strptime(start_date) + n)
    /\ interests \in PlanInterests
    /\ budget_level \in {"mid", "premium"}
    /\ num_travelers = 2
    /\ include_lodging \in BOOLEAN
    /\ weather = None
    /\ items = <<>>
    /\ scorer = "none"
    /\ scored_items = <<>>
    /\ weather_bonus = <<>>
    /\ cost_breakdown = None
    /\ total_cost = None
    /\ route_estimates = None
    /\ travel_comparison = None
    /\ error = None
    /\ OptimizerUnused
    /\ PlanTripIdle

Emit(messages) == emitted' = emitted \o messages

Stage(name) == stages' = Append(stages, name)

\* lines 557-596: the searches, and the festivals of the trip dates
FetchDestinationInfo ==
    /\ pc = "plan_call"
    /\ WellFormedDate(start_date) /\ WellFormedDate(end_date)
    /\ Stage("FetchDestinationInfo")
    /\ Emit(<<"start", "search_weather", "search_restaurants", "search_activities",
              "search_festivals">>)
    /\ weather' = [condition |-> <<sunny>>]
    /\ festivals_events' \in FestivalOutcomes(destination, start_date, end_date)
    /\ pc' = "plan_fetched"
    /\ UNCHANGED <<items, interests, scorer, scored_items, weather_bonus>>
    /\ UNCHANGED <<scored_restaurants, scored_activities, confidence_score, trip_plan>>
    /\ UNCHANGED <<cost_breakdown, total_cost, error>>
    /\ UNCHANGED <<tripArgs, travelVars>>
    /\ UNCHANGED optimizerVars

\* lines 616-617
ScoreRestaurants ==
    /\ pc = "plan_fetched"
    /\ Stage("ScoreRestaurants")
    /\ Emit(<<"evaluating_activities">>)
    /\ scored_restaurants' = function_tool_evaluator(restaurants, interests, weather)
    /\ pc' = "plan_restaurants_scored"
    /\ UNCHANGED <<festivals_events, scored_activities, confidence_score, trip_plan>>
    /\ UNCHANGED <<cost_breakdown, total_cost, error>>
    /\ UNCHANGED <<tripArgs, travelVars>>
    /\ UNCHANGED optimizerVars
    /\ UNCHANGED scorerVars

\* lines 619-620
ScoreActivities ==
    /\ pc = "plan_restaurants_scored"
    /\ Stage("ScoreActivities")
    /\ Emit(<<"evaluating_restaurants">>)
    /\ scored_activities' = function_tool_evaluator(activities, interests, weather)
    /\ pc' = "plan_activities_scored"
    /\ UNCHANGED <<festivals_events, scored_restaurants, confidence_score, trip_plan>>
    /\ UNCHANGED <<cost_breakdown, total_cost, error>>
    /\ UNCHANGED <<tripArgs, travelVars>>
    /\ UNCHANGED optimizerVars
    /\ UNCHANGED scorerVars

\* lines 623-630: the festivals are scored, boosted and appended
ScoreFestivals ==
    /\ pc = "plan_activities_scored"
    /\ festivals_events # <<>>
    /\ Stage("ScoreFestivals")
    /\ Emit(<<"festivals_found">>)
    /\ LET scored_festivals == function_tool_evaluator(festivals_events, interests, weather)
       IN  scored_activities' =
               scored_activities \o
                   [i \in 1..Len(scored_festivals) |->
                       WithScore(scored_festivals[i],
                                 Clamp(scored_festivals[i].score[1] + 20))]
    /\ pc' = "plan_merged"
    /\ UNCHANGED <<festivals_events, scored_restaurants, confidence_score, trip_plan>>
    /\ UNCHANGED <<cost_breakdown, total_cost, error>>
    /\ UNCHANGED <<tripArgs, travelVars>>
    /\ UNCHANGED optimizerVars
    /\ UNCHANGED scorerVars

NoFestivals_unguarded ==
    /\ pc = "plan_activities_scored"
    /\ Emit(<<"no_festivals">>)
    /\ pc' = "plan_merged"
    /\ UNCHANGED <<festivals_events, scored_restaurants, scored_activities,
                   confidence_score, trip_plan, stages>>
    /\ UNCHANGED <<cost_breakdown, total_cost, error>>
    /\ UNCHANGED <<tripArgs, travelVars>>
    /\ UNCHANGED optimizerVars
    /\ UNCHANGED scorerVars

\* lines 631-632
NoFestivals ==
    /\ pc = "plan_activities_scored"
    /\ festivals_events = <<>>
    /\ Emit(<<"no_festivals">>)
    /\ pc' = "plan_merged"
    /\ UNCHANGED <<festivals_events, scored_restaurants, scored_activities,
                   confidence_score, trip_plan, stages>>
    /\ UNCHANGED <<cost_breakdown, total_cost, error>>
    /\ UNCHANGED <<tripArgs, travelVars>>
    /\ UNCHANGED optimizerVars
    /\ UNCHANGED scorerVars

\* lines 634-636 and 455-467: function_tool_optimizer is entered with the
\* scored lists; OptimizerStep and OptimizerReturn carry it out
BuildItinerary ==
    /\ pc = "plan_merged"
    /\ Stage("BuildItinerary")
    /\ Emit(<<"building_itinerary">>)
    /\ available_activities' = scored_activities
    /\ available_restaurants' = scored_restaurants
    /\ day' = 0
    /\ used_activities' = {}
    /\ used_restaurants' = {}
    /\ itinerary' = <<>>
    /\ locals' = <<>>
    /\ pc' = "optimizer_loop"
    /\ UNCHANGED <<start_date, end_date>>
    /\ UNCHANGED <<festivals_events, scored_restaurants, scored_activities,
                   confidence_score, trip_plan>>
    /\ UNCHANGED <<cost_breakdown, total_cost, error>>
    /\ UNCHANGED <<tripArgs, travelVars>>
    /\ UNCHANGED scorerVars

\* lines 638-645, once function_tool_optimizer has returned to plan_trip
ComputeConfidence ==
    /\ pc = "optimizer_done"
    /\ stages # <<>>
    /\ Stage("ComputeConfidence")
    /\ Emit(<<"optimizing">>)
    /\ confidence_score' = <<Confidence(scored_activities, scored_restaurants)>>
    /\ pc' = "plan_confident"
    /\ UNCHANGED <<festivals_events, scored_restaurants, scored_activities, trip_plan>>
    /\ UNCHANGED <<cost_breakdown, total_cost, error>>
    /\ UNCHANGED <<tripArgs, travelVars>>
    /\ UNCHANGED optimizerVars
    /\ UNCHANGED scorerVars

\* lines 648-654: calculate_trip_cost returns
ComputeCosts ==
    /\ pc = "plan_confident"
    /\ budget_level \in BudgetLevels
    /\ Stage("ComputeCosts")
    /\ Emit(<<"calculating_costs", "estimated_total">>)
    /\ cost_breakdown' = <<CostBreakdown(destination, start_date, end_date,
                                         budget_level, num_travelers, include_lodging)>>
    /\ total_cost' = <<SumValues(cost_breakdown'[1])>>
    /\ pc' = "plan_costed"
    /\ UNCHANGED error
    /\ UNCHANGED <<festivals_events, scored_restaurants, scored_activities,
                   confidence_score, trip_plan>>
    /\ UNCHANGED <<tripArgs, travelVars>>
    /\ UNCHANGED optimizerVars
    /\ UNCHANGED scorerVars

\* lines 648-651: calculate_trip_cost raises KeyError at its line 134
ComputeCostsRaises ==
    /\ pc = "plan_confident"
    /\ budget_level \notin BudgetLevels
    /\ Stage("ComputeCosts")
    /\ Emit(<<"calculating_costs">>)
    /\ error' = <<"KeyError">>
    /\ pc' = "plan_error"
    /\ UNCHANGED <<cost_breakdown, total_cost>>
    /\ UNCHANGED <<festivals_events, scored_restaurants, scored_activities,
                   confidence_score, trip_plan>>
    /\ UNCHANGED <<tripArgs, travelVars>>
    /\ UNCHANGED optimizerVars
    /\ UNCHANGED scorerVars

\* lines 657-663, with an origin city
CompareTravel ==
    /\ pc = "plan_costed"
    /\ origin_city # <<>>
    /\ Stage("CompareTravel")
    /\ Emit(<<"comparing_travel", "travel_analysis_complete">>)
    /\ route_estimates' = <<RouteEstimates(origin_city, destination)>>
    /\ travel_comparison' = <<Comparison(route_estimates'[1], num_travelers)>>
    /\ pc' = "plan_compared"
    /\ UNCHANGED <<cost_breakdown, total_cost, error>>
    /\ UNCHANGED <<festivals_events, scored_restaurants, scored_activities,
                   confidence_score, trip_plan>>
    /\ UNCHANGED tripArgs
    /\ UNCHANGED optimizerVars
    /\ UNCHANGED scorerVars

\* lines 657-658, without an origin city
SkipCompareTravel ==
    /\ pc = "plan_costed"
    /\ origin_city = <<>>
    /\ pc' = "plan_compared"
    /\ UNCHANGED <<cost_breakdown, total_cost, error>>
    /\ UNCHANGED <<tripArgs, planTripVars, travelVars>>
    /\ UNCHANGED optimizerVars
    /\ UNCHANGED scorerVars

\* lines 665-669
CheckConfidence ==
    /\ pc = "plan_compared"
    /\ Stage("CheckConfidence")
    /\ Emit(IF BelowThreshold(confidence_score[1])
            THEN <<"low_confidence">> ELSE <<"high_confidence">>)
    /\ pc' = "plan_checked"
    /\ UNCHANGED <<cost_breakdown, total_cost, error>>
    /\ UNCHANGED <<festivals_events, scored_restaurants, scored_activities,
                   confidence_score, trip_plan>>
    /\ UNCHANGED <<tripArgs, travelVars>>
    /\ UNCHANGED optimizerVars
    /\ UNCHANGED scorerVars

\* lines 671-692
Assemble ==
    /\ pc = "plan_checked"
    /\ Stage("Assemble")
    /\ trip_plan' = <<[destination |-> destination,
                       start_date |-> start_date,
                       end_date |-> end_date,
                       interests |-> interests,
                       weather_info |-> weather,
                       restaurants |-> scored_restaurants,
                       activities |-> scored_activities,
                       festivals_events |-> festivals_events,
                       itinerary |-> itinerary,
                       confidence_score |-> confidence_score[1],
                       budget_level |-> budget_level,
                       num_travelers |-> num_travelers,
                       include_lodging |-> include_lodging,
                       cost_breakdown |-> cost_breakdown[1],
                       total_estimated_cost |-> total_cost[1],
                       origin_city |-> origin_city,
                       travel_comparison |-> travel_comparison]>>
    /\ Emit(<<"complete">>)
    /\ pc' = "plan_assembled"
    /\ UNCHANGED <<festivals_events, scored_restaurants, scored_activities,
                   confidence_score>>
    /\ UNCHANGED <<cost_breakdown, total_cost, error>>
    /\ UNCHANGED <<tripArgs, travelVars>>
    /\ UNCHANGED optimizerVars
    /\ UNCHANGED scorerVars

\* line 693 and format_trip_plan, lines 695-858: the report is yielded
FormatTripPlan ==
    /\ pc = "plan_assembled"
    /\ trip_plan[1].total_estimated_cost # 0
    /\ Stage("Done")
    /\ Emit(<<"report">>)
    /\ pc' = "plan_done"
    /\ UNCHANGED <<cost_breakdown, total_cost, error>>
    /\ UNCHANGED <<festivals_events, scored_restaurants, scored_activities,
                   confidence_score, trip_plan>>
    /\ UNCHANGED <<tripArgs, travelVars>>
    /\ UNCHANGED optimizerVars
    /\ UNCHANGED scorerVars

\* format_trip_plan, line 811: cost / total_cost raises ZeroDivisionError
FormatTripPlanRaises ==
    /\ pc = "plan_assembled"
    /\ trip_plan[1].total_estimated_cost = 0
    /\ error' = <<"ZeroDivisionError">>
    /\ pc' = "plan_error"
    /\ UNCHANGED <<cost_breakdown, total_cost>>
    /\ UNCHANGED <<tripArgs, planTripVars, travelVars>>
    /\ UNCHANGED optimizerVars
    /\ UNCHANGED scorerVars

PlanNext ==
    \/ FetchDestinationInfo
    \/ ScoreRestaurants
    \/ ScoreActivities
    \/ ScoreFestivals
    \/ NoFestivals
    \/ BuildItinerary
    \/ OptimizerStep
    \/ OptimizerReturn
    \/ ComputeConfidence
    \/ ComputeCosts
    \/ ComputeCostsRaises
    \/ CompareTravel
    \/ SkipCompareTravel
    \/ CheckConfidence
    \/ Assemble
    \/ FormatTripPlan
    \/ FormatTripPlanRaises

PlanSpec == PlanInit /\ [][PlanNext]_vars

(***************************************************************************)
(* Properties of plan_trip.                                                *)
(***************************************************************************)
\* the inputs the planner's contract allows: a tier of the price table and
\* an end date that is not before the start date
ValidInputs == budget_level \in BudgetLevels /\ DateStrLeq(start_date, end_date)

\* function_tool_optimizer has returned its itinerary
ItineraryBuilt == pc = "optimizer_done" \/ "ComputeConfidence" \in Range(stages)

\* C14: with a budget tier outside {low, mid, luxury} plan_trip aborts before
\* the itinerary is built and before any cost is computed.
C14_InvalidTierAbortsFirst ==
    budget_level \notin BudgetLevels =>
        /\ ~ItineraryBuilt
        /\ confidence_score = None
        /\ cost_breakdown = None

\* C15: with end_date before start_date the run is aborted before any
\* itinerary or cost is produced: the optimizer returns no itinerary, no cost
\* breakdown is computed and plan_trip does not complete.
C15_InvalidRangeAborts ==
    ~DateStrLeq(start_date, end_date) =>
        /\ ~ItineraryBuilt
        /\ cost_breakdown = None
        /\ trip_plan = None
        /\ pc # "plan_done"

Optional(present, stage) == IF present THEN <<stage>> ELSE <<>>

\* the order of the stages as the state machine of the specification gives it
ClaimedStageOrder ==
    <<"FetchDestinationInfo", "ScoreRestaurants", "ScoreActivities">>
        \o Optional(festivals_events # <<>>, "ScoreFestivals")
        \o <<"BuildItinerary", "ComputeCosts">>
        \o Optional(origin_city # <<>>, "CompareTravel")
        \o <<"ComputeConfidence", "Assemble", "Done">>

\* the order with the score computed right after the itinerary is built and
\* the confidence message chosen after the travel comparison
StageOrder ==
    <<"FetchDestinationInfo", "ScoreRestaurants", "ScoreActivities">>
        \o Optional(festivals_events # <<>>, "ScoreFestivals")
        \o <<"BuildItinerary", "ComputeConfidence", "ComputeCosts">>
        \o Optional(origin_city # <<>>, "CompareTravel")
        \o <<"CheckConfidence", "Assemble", "Done">>

IsPrefix(s, t) == Len(s) <= Len(t) /\ SubSeq(t, 1, Len(s)) = s

Count(s, x) == Cardinality({i \in 1..Len(s) : s[i] = x})

\* the report is the last item emitted, right after the one completion message
ReportEndsTheRun ==
    /\ Len(emitted) >= 2
    /\ emitted[Len(emitted)] = "report"
    /\ emitted[Len(emitted) - 1] = "complete"
    /\ Count(emitted, "complete") = 1
    /\ Count(emitted, "report") = 1

\* C18 as stated: every run with valid inputs that is done has executed the
\* stages in the order FetchDestinationInfo, ScoreRestaurants,
\* ScoreActivities, (ScoreFestivals), BuildItinerary, ComputeCosts,
\* (CompareTravel), ComputeConfidence, Assemble, Done, the confidence score
\* being computed in ComputeConfidence, and the report ends the run.
C18_ClaimedStageOrder ==
    (ValidInputs /\ pc = "plan_done") =>
        /\ SelectSeq(stages, LAMBDA s : s # "CheckConfidence") = ClaimedStageOrder
        /\ ReportEndsTheRun

\* C18, amended: every run with valid inputs executes FetchDestinationInfo,
\* ScoreRestaurants, ScoreActivities, (ScoreFestivals, only when festivals
\* were found), BuildItinerary, ComputeConfidence, ComputeCosts,
\* (CompareTravel, only with an origin city), the confidence message,
\* Assemble, Done, in this order and without skipping any; the report is the
\* last item emitted, right after the single completion message.
C18_StageOrder ==
    ValidInputs =>
        /\ pc # "plan_call" => IsPrefix(stages, StageOrder)
        /\ pc = "plan_done" => stages = StageOrder /\ ReportEndsTheRun
        /\ pc # "plan_done" => Count(emitted, "report") = 0

C18_Witness ==
    /\ ValidInputs
    /\ pc = "plan_done"
    /\ Len(festivals_events) = 2
    /\ origin_city # <<>>
    /\ Len(stages) = 11
    /\ stages[6] = "ComputeConfidence"
    /\ stages[7] = "ComputeCosts"

\* the scored items of the plan taken together as one list
AllScoredItems == trip_plan[1].activities \o trip_plan[1].restaurants

\* C19: the confidence score stored in the TripPlan is the average of the
\* scores of all scored items (activities, merged festivals, restaurants)
\* taken as one list.
C19_ConfidenceIsOverallAverage ==
    trip_plan # None =>
        trip_plan[1].confidence_score.num * Len(AllScoredItems)
            = SumScores(AllScoredItems) * trip_plan[1].confidence_score.den

ConfidenceMessages == Count(emitted, "low_confidence") + Count(emitted, "high_confidence")

\* C20: in every run of plan_trip with valid inputs the confidence check
\* emits exactly one of the two messages, the high-confidence one exactly
\* when the score is at least 0.7, and neither outcome stops the run: after
\* the check the TripPlan is assembled and the completion message and the
\* report are emitted, and no such run ends in an error.
C20_ThresholdIsAdvisory ==
    ValidInputs =>
        /\ ConfidenceMessages <= 1
        /\ pc \in {"plan_checked", "plan_assembled", "plan_done"} =>
               /\ ConfidenceMessages = 1
               /\ Count(emitted, "high_confidence") = 1
                      <=> confidence_score[1].num * 10 >= 7 * confidence_score[1].den * 100
        /\ pc # "plan_error"
        /\ pc = "plan_compared" => ENABLED CheckConfidence
        /\ pc = "plan_checked" => ENABLED Assemble
        /\ pc = "plan_assembled" => ENABLED FormatTripPlan
        /\ pc = "plan_done" =>
               /\ trip_plan # None
               /\ SubSeq(emitted, Len(emitted) - 1, Len(emitted)) = <<"complete", "report">>

C20_Witness ==
    /\ ValidInputs
    /\ pc = "plan_done"
    /\ Count(emitted, "low_confidence") = 1
    /\ confidence_score[1].num * 2 > confidence_score[1].den * 100
    /\ trip_plan # None

(***************************************************************************)
(* plan_trip_gradio (app.py).  A display is the sequence of its parts: the *)
(* planner's updates, and the notices of the email and push steps.  The    *)
(* planner is the generator of plan_trip above, advanced one update at a   *)
(* time by planning_gen.__anext__().                                       *)
(***************************************************************************)
\* the title line of format_trip_plan, planner.py line 712
ReportTitle == <<"S", "M", "A", "R", "T", " ", "T", "R", "I", "P", " ", "S", "C", "O", "U", "T", " ", "P", "L", "A", "N">>

\* the text plan_trip_gradio looks for, line 51
SoughtTitle == <<"S", "m", "a", "r", "t", " ", "T", "r", "i", "p", " ", "S", "c", "o", "u", "t", " ", "P", "l", "a", "n", " ", "f", "o", "r">>

\* line 51: "Smart Trip Scout Plan for" in update and len(update) > 200;
\* only the report is that long
IsFormattedPlan(update) == update = "report" /\ IsSubstring(SoughtTitle, ReportTitle)

general == <<"g", "e", "n", "e", "r", "a", "l">>

MalformedDate == <<2025, 13, 1>>

AppEmails == {<<>>, <<" ">>, <<"a", "@", "b", ".", "c">>}

\* A call of plan_trip_gradio with the form's values.
GradioInit ==
    /\ pc = "app_call"
    /\ destination \in {<<>>, CharlestonSC}
    /\ origin_city \in {<<>>, <<"A", "t", "l", "a", "n", "t", "a">>}
    /\ start_date \in {<<>>, <<2025, 8, 15>>, MalformedDate}
    /\ end_date \in {<<>>, <<2025, 8, 14>>, <<2025, 8, 15>>}
    /\ interests \in PlanInterests
    /\ budget_level \in {"mid", "premium"}
    /\ num_travelers \in {0, 2}
    /\ include_lodging \in BOOLEAN
    /\ email \in AppEmails
    /\ enable_push \in BOOLEAN
    /\ formatted_plan = <<>>
    /\ current_display = <<>>
    /\ final_result = <<>>
    /\ outputs = <<>>
    /\ calls = <<>>
    /\ ConcIdle
    /\ weather = None
    /\ items = <<>>
    /\ scorer = "none"
    /\ scored_items = <<>>
    /\ weather_bonus = <<>>
    /\ festivals_events = <<>>
    /\ scored_restaurants = <<>>
    /\ scored_activities = <<>>
    /\ confidence_score = None
    /\ trip_plan = None
    /\ stages = <<>>
    /\ emitted = <<>>
    /\ cost_breakdown = None
    /\ total_cost = None
    /\ route_estimates = None
    /\ travel_comparison = None
    /\ error = None
    /\ OptimizerUnused

\* lines 15-17: a required field is empty
MissingField ==
    /\ pc = "app_call"
    /\ destination = <<>> \/ start_date = <<>> \/ end_date = <<>>
    /\ outputs' = Append(outputs, <<"fill_required_fields">>)
    /\ pc' = "app_done"
    /\ UNCHANGED <<destination, origin_city, budget_level, num_travelers, include_lodging>>
    /\ UNCHANGED <<email, enable_push, formatted_plan, current_display, final_result, calls>>
    /\ UNCHANGED <<planTripVars, travelVars, cost_breakdown, total_cost, error, concVars>>
    /\ UNCHANGED optimizerVars
    /\ UNCHANGED scorerVars

\* lines 20-41: the interests and the party size are normalised and
\* planner.plan_trip is called
InvokePlanner ==
    /\ pc = "app_call"
    /\ destination # <<>> /\ start_date # <<>> /\ end_date # <<>>
    /\ interests' = IF interests = <<>> THEN <<general>> ELSE interests
    /\ num_travelers' = IF num_travelers < 1 THEN 1 ELSE num_travelers
    /\ calls' = Append(calls, "plan_trip")
    /\ pc' = "plan_call"
    /\ UNCHANGED <<destination, origin_city, budget_level, include_lodging>>
    /\ UNCHANGED <<email, enable_push, formatted_plan, current_display, final_result, outputs>>
    /\ UNCHANGED <<planTripVars, travelVars, cost_breakdown, total_cost, error, concVars>>
    /\ UNCHANGED optimizerVars
    /\ UNCHANGED <<items, weather, scorer, scored_items, weather_bonus>>

\* get_festivals_and_events, planner.py lines 268-269, called at line 596:
\* strptime raises ValueError after the first five updates
FetchDestinationInfoRaises ==
    /\ pc = "plan_call"
    /\ ~(WellFormedDate(start_date) /\ WellFormedDate(end_date))
    /\ Stage("FetchDestinationInfo")
    /\ Emit(<<"start", "search_weather", "search_restaurants", "search_activities",
              "search_festivals">>)
    /\ error' = <<"ValueError">>
    /\ pc' = "plan_error"
    /\ UNCHANGED <<festivals_events, scored_restaurants, scored_activities,
                   confidence_score, trip_plan>>
    /\ UNCHANGED <<cost_breakdown, total_cost>>
    /\ UNCHANGED <<tripArgs, travelVars>>
    /\ UNCHANGED optimizerVars
    /\ UNCHANGED scorerVars

\* the updates of the planner that the loop of lines 45-59 has not yet shown
Pending == Len(emitted) - Len(outputs)

\* the planner runs only inside planning_gen.__anext__(), line 47, up to its
\* next yield
PlanningRuns == pc \notin {"app_call", "app_email", "app_push", "app_done"}

\* lines 47-57: one update is received and the display is yielded
ShowUpdate ==
    /\ PlanningRuns
    /\ Pending > 0
    /\ LET update == emitted[Len(outputs) + 1]
       IN  IF IsFormattedPlan(update)
           THEN /\ formatted_plan' = <<update>>
                /\ outputs' = Append(outputs, formatted_plan')
                /\ UNCHANGED current_display
           ELSE /\ current_display' = Append(current_display, update)
                /\ outputs' = Append(outputs, current_display')
                /\ UNCHANGED formatted_plan
    /\ UNCHANGED <<pc, destination, origin_city, budget_level, num_travelers, include_lodging>>
    /\ UNCHANGED <<email, enable_push, final_result, calls>>
    /\ UNCHANGED <<planTripVars, travelVars, cost_breakdown, total_cost, error, concVars>>
    /\ UNCHANGED optimizerVars
    /\ UNCHANGED scorerVars

\* lines 58-62: StopAsyncIteration ends the loop
PlanningEnds ==
    /\ pc = "plan_done"
    /\ Pending = 0
    /\ final_result' = IF formatted_plan # <<>> THEN formatted_plan ELSE current_display
    /\ pc' = "app_email"
    /\ UNCHANGED <<destination, origin_city, budget_level, num_travelers, include_lodging>>
    /\ UNCHANGED <<email, enable_push, formatted_plan, current_display, outputs, calls>>
    /\ UNCHANGED <<planTripVars, travelVars, cost_breakdown, total_cost, error, concVars>>
    /\ UNCHANGED optimizerVars
    /\ UNCHANGED scorerVars

PlanningRaises_then_email ==
    /\ pc = "plan_error"
    /\ Pending = 0
    /\ outputs' = Append(outputs, <<"error_planning_trip">>)
    /\ final_result' = current_display
    /\ pc' = "app_email"
    /\ UNCHANGED <<destination, origin_city, budget_level, num_travelers, include_lodging>>
    /\ UNCHANGED <<email, enable_push, formatted_plan, current_display, calls>>
    /\ UNCHANGED <<planTripVars, travelVars, cost_breakdown, total_cost, error, concVars>>
    /\ UNCHANGED optimizerVars
    /\ UNCHANGED scorerVars

\* lines 99-100: an exception of the planner reaches the outer handler
PlanningRaises ==
    /\ pc = "plan_error"
    /\ Pending = 0
    /\ outputs' = Append(outputs, <<"error_planning_trip">>)
    /\ pc' = "app_done"
    /\ UNCHANGED <<destination, origin_city, budget_level, num_travelers, include_lodging>>
    /\ UNCHANGED <<email, enable_push, formatted_plan, current_display, final_result, calls>>
    /\ UNCHANGED <<planTripVars, travelVars, cost_breakdown, total_cost, error, concVars>>
    /\ UNCHANGED optimizerVars
    /\ UNCHANGED scorerVars

\* if email and email.strip(), line 65
EmailGiven == email # <<>> /\ Strip(email) # <<>>

\* lines 65-82.  send_email returns whether the message was accepted; it
\* catches every Exception itself (planner.py lines 862, 985-987), so the
\* handler of lines 80-82 is never entered.
SendEmail ==
    /\ pc = "app_email"
    /\ EmailGiven
    /\ \E email_sent \in BOOLEAN :
           /\ calls' = Append(calls, "send_email")
           /\ final_result' = Append(final_result,
                                     IF email_sent THEN "email_sent" ELSE "email_failed")
           /\ outputs' = outputs \o <<Append(final_result, "sending_email"), final_result'>>
    /\ pc' = "app_push"
    /\ UNCHANGED <<destination, origin_city, budget_level, num_travelers, include_lodging>>
    /\ UNCHANGED <<email, enable_push, formatted_plan, current_display>>
    /\ UNCHANGED <<planTripVars, travelVars, cost_breakdown, total_cost, error, concVars>>
    /\ UNCHANGED optimizerVars
    /\ UNCHANGED scorerVars

\* line 65, no address
SkipEmail ==
    /\ pc = "app_email"
    /\ ~EmailGiven
    /\ pc' = "app_push"
    /\ UNCHANGED <<cost_breakdown, total_cost, error>>
    /\ UNCHANGED <<tripArgs, planTripVars, travelVars>>
    /\ UNCHANGED optimizerVars
    /\ UNCHANGED scorerVars

PushAsked_after_email == enable_push /\ "email_failed" \notin Range(final_result)

\* if enable_push, line 85
PushAsked == enable_push

\* lines 85-97.  send_push_notification returns whether the service accepted
\* the message; it catches every Exception itself (planner.py lines 991,
\* 1008-1010).
SendPush ==
    /\ pc = "app_push"
    /\ PushAsked
    /\ \E push_sent \in BOOLEAN :
           /\ calls' = Append(calls, "send_push_notification")
           /\ final_result' = Append(final_result,
                                     IF push_sent THEN "push_sent" ELSE "push_failed")
           /\ outputs' = outputs \o <<Append(final_result, "sending_push"), final_result'>>
    /\ pc' = "app_done"
    /\ UNCHANGED <<destination, origin_city, budget_level, num_travelers, include_lodging>>
    /\ UNCHANGED <<email, enable_push, formatted_plan, current_display>>
    /\ UNCHANGED <<planTripVars, travelVars, cost_breakdown, total_cost, error, concVars>>
    /\ UNCHANGED optimizerVars
    /\ UNCHANGED scorerVars

\* line 85, push not asked for
SkipPush ==
    /\ pc = "app_push"
    /\ ~PushAsked
    /\ pc' = "app_done"
    /\ UNCHANGED <<cost_breakdown, total_cost, error>>
    /\ UNCHANGED <<tripArgs, planTripVars, travelVars>>
    /\ UNCHANGED optimizerVars
    /\ UNCHANGED scorerVars

\* the planner advances only when every update it yielded has been shown
PlannerAdvances == Pending = 0 /\ (PlanNext \/ FetchDestinationInfoRaises)

GradioNext ==
    \/ MissingField
    \/ InvokePlanner
    \/ PlannerAdvances
    \/ ShowUpdate
    \/ PlanningEnds
    \/ PlanningRaises
    \/ SendEmail
    \/ SkipEmail
    \/ SendPush
    \/ SkipPush

GradioSpec == GradioInit /\ [][GradioNext]_vars

(***************************************************************************)
(* Properties of plan_trip_gradio.                                         *)
(***************************************************************************)
\* the display yielded last
LastOutput == outputs[Len(outputs)]

EmailFailed == "email_failed" \in Range(final_result)

PushFailed == "push_failed" \in Range(final_result)

\* C21: a failed email does not invalidate the plan: the final display still
\* holds every update the planner streamed, the failure notice stands where
\* the sending notice stood, and the push notification is still attempted
\* whenever enable_push is set; a failed push only appends its notice.
C21_EmailFailureKeepsPlan ==
    /\ EmailFailed =>
           /\ IsPrefix(emitted, final_result)
           /\ "report" \in Range(final_result)
           /\ final_result[Len(emitted) + 1] = "email_failed"
           /\ "sending_email" \notin Range(final_result)
           /\ pc = "app_push" => LastOutput = final_result
           /\ pc = "app_push" /\ enable_push => ENABLED SendPush
           /\ pc = "app_done" /\ enable_push => "send_push_notification" \in Range(calls)
    /\ PushFailed =>
           /\ pc = "app_done"
           /\ LastOutput = final_result
           /\ final_result[Len(final_result)] = "push_failed"
           /\ "sending_push" \notin Range(final_result)
           /\ LET before == SubSeq(final_result, 1, Len(final_result) - 1)
              IN  \/ before = emitted
                  \/ /\ EmailGiven
                     /\ before \in {Append(emitted, "email_sent"),
                                    Append(emitted, "email_failed")}

\* both the email and the push notification failed after a finished plan
C21_Witness ==
    /\ pc = "app_done"
    /\ EmailFailed
    /\ PushFailed
    /\ "report" \in Range(final_result)

\* C22: when the planner raises during a run, the stream ends with exactly
\* one error message as its last item and neither an email nor a push
\* notification is attempted; when a required field is missing, the stream is
\* a single message and the planner is never invoked.
C22_ErrorsEndTheStream ==
    /\ error # None =>
           /\ Range(calls) = {"plan_trip"}
           /\ pc \in {"plan_error", "app_done"}
           /\ pc = "app_done" =>
                  /\ LastOutput = <<"error_planning_trip">>
                  /\ Count(outputs, <<"error_planning_trip">>) = 1
                  /\ ~ENABLED GradioNext
    /\ pc # "app_call" /\ (destination = <<>> \/ start_date = <<>> \/ end_date = <<>>) =>
           /\ pc = "app_done"
           /\ outputs = <<<<"fill_required_fields">>>>
           /\ calls = <<>>
           /\ emitted = <<>>
           /\ ~ENABLED GradioNext

\* the run with the tier "premium" has ended, for a caller that asked for an
\* email and a push notification
C22_Witness ==
    /\ pc = "app_done"
    /\ error = <<"KeyError">>
    /\ EmailGiven
    /\ enable_push
    /\ Len(outputs) > 1

(***************************************************************************)
(* Two calls of plan_trip on one TripPlanner (app.py line 9, planner.py    *)
(* lines 550-693).  Objects live in a heap under their identity; a local   *)
(* of a call holds an identity, a list holds the identities of its items.  *)
(* Each call is also carried out on plain values, with the same random     *)
(* outcomes, as the call run alone.  The pools are the first entries of    *)
(* the lists of plan_trip.                                                 *)
(***************************************************************************)
Requests == {1, 2}

ObjectId_on_instance(r, site, i) == <<0, site, i>>

\* the identity of the object that call r creates at a site of plan_trip: a
\* list or dict display, a copy() or a constructor evaluated in the call is
\* a new object (i = 0 for a list, i > 0 for its i-th item)
ObjectId(r, site, i) == <<r, site, i>>

\* a list of new items is created by call r
AllocList(h, r, site, values) ==
    LET new == {ObjectId(r, site, i) : i \in 0..Len(values)}
    IN  [id \in DOMAIN h \cup new |->
            IF id = ObjectId(r, site, 0)
            THEN [i \in 1..Len(values) |-> ObjectId(r, site, i)]
            ELSE IF id \in new
            THEN values[CHOOSE i \in 1..Len(values) : id = ObjectId(r, site, i)]
            ELSE h[id]]

\* one new object is created by call r
AllocObject(h, r, site, value) ==
    [id \in DOMAIN h \cup {ObjectId(r, site, 0)} |->
        IF id = ObjectId(r, site, 0) THEN value ELSE h[id]]

\* the items of the list behind a reference
DerefList(h, ref) == IF ref = None THEN <<>> ELSE [i \in 1..Len(h[ref[1]]) |-> h[h[ref[1]][i]]]

ConcRestaurants == SubSeq(restaurants, 1, 1)

ConcActivities == SubSeq(activities, 1, 2)

\* get_festivals_and_events: no festival, or the festival of one template
ConcFestivalOutcomes(args) ==
    {<<>>} \cup UNION {FestivalOptions(festival_templates[t], args.destination,
                                        args.start_date, args.end_date) : t \in {2, 5}}

\* the arguments of the two calls
ConcArgs ==
    <<[destination |-> CharlestonSC, origin_city |-> <<>>,
       start_date |-> <<2025, 8, 15>>, end_date |-> <<2025, 8, 15>>,
       interests |-> <<food>>, budget_level |-> "mid",
       num_travelers |-> 2, include_lodging |-> FALSE],
      [destination |-> ParisFrance, origin_city |-> <<"A", "t", "l", "a", "n", "t", "a">>,
       start_date |-> <<2025, 8, 15>>, end_date |-> <<2025, 8, 16>>,
       interests |-> <<<<"h", "i", "s", "t", "o", "r", "y">>>>, budget_level |-> "luxury",
       num_travelers |-> 1, include_lodging |-> TRUE]>>

\* the locals of a call before its first statement
NoLocals ==
    [restaurants |-> None, activities |-> None, festivals_events |-> None,
     scored_restaurants |-> None, scored_activities |-> None,
     available_activities |-> None, available_restaurants |-> None,
     day |-> 0, used_activities |-> {}, used_restaurants |-> {}, itinerary |-> <<>>,
     confidence_score |-> None, cost_breakdown |-> None, total_cost |-> None,
     travel_comparison |-> None, trip_plan |-> None]

ConcInit ==
    /\ pc = "requests"
    /\ heap = <<>>
    /\ frames = [r \in Requests |-> [pc |-> "plan_call", args |-> ConcArgs[r]] @@ NoLocals]
    /\ solo = [r \in Requests |-> NoLocals]
    /\ destination = <<>>
    /\ origin_city = <<>>
    /\ budget_level = "mid"
    /\ num_travelers = 1
    /\ include_lodging = TRUE
    /\ cost_breakdown = None
    /\ total_cost = None
    /\ route_estimates = None
    /\ travel_comparison = None
    /\ error = None
    /\ festivals_events = <<>>
    /\ scored_restaurants = <<>>
    /\ scored_activities = <<>>
    /\ confidence_score = None
    /\ trip_plan = None
    /\ stages = <<>>
    /\ emitted = <<>>
    /\ email = <<>>
    /\ enable_push = FALSE
    /\ formatted_plan = <<>>
    /\ current_display = <<>>
    /\ final_result = <<>>
    /\ outputs = <<>>
    /\ calls = <<>>
    /\ OptimizerIdle
    /\ ScorerIdle

\* what every step of a call leaves alone
ConcFrame ==
    /\ UNCHANGED <<pc, destination, origin_city, budget_level, num_travelers, include_lodging>>
    /\ UNCHANGED <<planTripVars, travelVars, cost_breakdown, total_cost, error>>
    /\ UNCHANGED appVars
    /\ UNCHANGED optimizerVars
    /\ UNCHANGED scorerVars

\* weather_data of plan_trip, lines 565-570
ConcWeather == [condition |-> <<sunny>>]

\* lines 577-609: the pools and the festivals of call r are built
ConcFetch(r) ==
    /\ frames[r].pc = "plan_call"
    /\ \E found \in ConcFestivalOutcomes(frames[r].args) :
           /\ heap' = AllocList(AllocList(AllocList(heap, r, "restaurants", ConcRestaurants),
                                          r, "activities", ConcActivities),
                                r, "festivals_events", found)
           /\ solo' = [solo EXCEPT ![r].restaurants = ConcRestaurants,
                                   ![r].activities = ConcActivities,
                                   ![r].festivals_events = found]
    /\ frames' = [frames EXCEPT ![r].pc = "plan_fetched",
                                ![r].restaurants = <<ObjectId(r, "restaurants", 0)>>,
                                ![r].activities = <<ObjectId(r, "activities", 0)>>,
                                ![r].festivals_events = <<ObjectId(r, "festivals_events", 0)>>]
    /\ ConcFrame

\* lines 616-617 and 420-445: the evaluator copies each item into a new list
ConcScoreRestaurants(r) ==
    /\ frames[r].pc = "plan_fetched"
    /\ heap' = AllocList(heap, r, "scored_restaurants",
                         function_tool_evaluator(DerefList(heap, frames[r].restaurants),
                                                 frames[r].args.interests, ConcWeather))
    /\ frames' = [frames EXCEPT ![r].pc = "plan_restaurants_scored",
                                ![r].scored_restaurants = <<ObjectId(r, "scored_restaurants", 0)>>]
    /\ solo' = [solo EXCEPT ![r].scored_restaurants =
                   function_tool_evaluator(solo[r].restaurants, frames[r].args.interests,
                                           ConcWeather)]
    /\ ConcFrame

\* lines 619-620
ConcScoreActivities(r) ==
    /\ frames[r].pc = "plan_restaurants_scored"
    /\ heap' = AllocList(heap, r, "scored_activities",
                         function_tool_evaluator(DerefList(heap, frames[r].activities),
                                                 frames[r].args.interests, ConcWeather))
    /\ frames' = [frames EXCEPT ![r].pc = "plan_activities_scored",
                                ![r].scored_activities = <<ObjectId(r, "scored_activities", 0)>>]
    /\ solo' = [solo EXCEPT ![r].scored_activities =
                   function_tool_evaluator(solo[r].activities, frames[r].args.interests,
                                           ConcWeather)]
    /\ ConcFrame

\* festival['score'] = min(1.0, festival['score'] + 0.2)
Boosted(festival) == WithScore(festival, Clamp(festival.score[1] + 20))

\* lines 623-632: the festivals are scored into a new list, boosted in place
\* and appended in place to the scored activities
ConcScoreFestivals(r) ==
    /\ frames[r].pc = "plan_activities_scored"
    /\ LET f == frames[r]
           found == DerefList(heap, f.festivals_events)
           scored_festivals == ObjectId(r, "scored_festivals", 0)
           h1 == AllocList(heap, r, "scored_festivals",
                           function_tool_evaluator(found, f.args.interests, ConcWeather))
           h2 == [id \in DOMAIN h1 |->
                     IF id \in Range(h1[scored_festivals]) THEN Boosted(h1[id]) ELSE h1[id]]
           h3 == [h2 EXCEPT ![f.scored_activities[1]] = @ \o h2[scored_festivals]]
           alone == function_tool_evaluator(solo[r].festivals_events, f.args.interests,
                                            ConcWeather)
       IN  /\ heap' = IF found # <<>> THEN h3 ELSE heap
           /\ solo' = IF solo[r].festivals_events # <<>>
                      THEN [solo EXCEPT ![r].scored_activities =
                               @ \o [i \in 1..Len(alone) |-> Boosted(alone[i])]]
                      ELSE solo
    /\ frames' = [frames EXCEPT ![r].pc = "plan_merged"]
    /\ ConcFrame

\* lines 634-636 and 455-467: function_tool_optimizer copies the two lists
ConcBuildItinerary(r) ==
    /\ frames[r].pc = "plan_merged"
    /\ heap' = AllocObject(AllocObject(heap, r, "available_activities",
                                      heap[frames[r].scored_activities[1]]),
                           r, "available_restaurants", heap[frames[r].scored_restaurants[1]])
    /\ frames' = [frames EXCEPT ![r].pc = "optimizer_loop",
                     ![r].available_activities = <<ObjectId(r, "available_activities", 0)>>,
                     ![r].available_restaurants = <<ObjectId(r, "available_restaurants", 0)>>]
    /\ solo' = [solo EXCEPT ![r].available_activities = <<solo[r].scored_activities>>,
                            ![r].available_restaurants = <<solo[r].scored_restaurants>>]
    /\ ConcFrame

\* One iteration of the loop of function_tool_optimizer, lines 469-546, on
\* the values it is given; pa and pr are the outcomes of the two shuffles.
OptimizerDayOf(available_a, available_r, used_a, used_r, date_str, pa, pr) ==
    LET unused_activities0 == Unused(available_a, used_a)
        unused_restaurants0 == Unused(available_r, used_r)
        reset_activities == unused_activities0 = <<>> /\ available_a # <<>>
        reset_restaurants == unused_restaurants0 = <<>> /\ available_r # <<>>
        used_activities1 == IF reset_activities THEN {} ELSE used_a
        unused_activities1 ==
            IF reset_activities THEN Shuffled(available_a, pa) ELSE unused_activities0
        used_restaurants1 == IF reset_restaurants THEN {} ELSE used_r
        unused_restaurants1 ==
            IF reset_restaurants THEN Shuffled(available_r, pr) ELSE unused_restaurants0
        festivals_today ==
            SelectSeq(unused_activities1, LAMBDA act : IsFestivalOn(act, date_str))
        morning_activity == MorningChoice(unused_activities1, festivals_today)
        used_activities2 == MarkUsed(used_activities1, morning_activity)
        unused_activities2 ==
            IF morning_activity = None THEN unused_activities1
            ELSE Remove(unused_activities1, morning_activity[1])
        remaining_festivals ==
            SelectSeq(festivals_today, LAMBDA act : act.name \notin used_activities2)
        branch == AfternoonBranch(remaining_festivals, unused_activities2, morning_activity)
        afternoon_activity ==
            AfternoonChoice(branch, remaining_festivals, unused_activities2,
                            available_a, morning_activity)
        used_activities3 ==
            IF branch \in {"festival", "unused"}
            THEN MarkUsed(used_activities2, afternoon_activity)
            ELSE used_activities2
        evening_restaurant == EveningChoice(unused_restaurants1, morning_activity)
    IN  [day_plan |-> [morning |-> morning_activity,
                       afternoon |-> afternoon_activity,
                       evening |-> evening_restaurant],
         used_activities |-> used_activities3,
         used_restaurants |-> MarkUsed(used_restaurants1, evening_restaurant)]

\* the item of a list that a slot refers to: the dict itself, not a copy
RefOf(h, list, choice) ==
    IF choice = None THEN None ELSE <<CHOOSE id \in Range(h[list[1]]) : h[id] = choice[1]>>

\* itinerary[date_str] = day_plan
WithDay(it, date_str, day_plan) ==
    [d \in DOMAIN it \cup {date_str} |-> IF d = date_str THEN day_plan ELSE it[d]]

\* days of function_tool_optimizer, line 457
ConcDays(args) == strptime(args.end_date) - strptime(args.start_date) + 1

\* for day in range(days): one iteration in call r
ConcOptimizerDay(r) ==
    /\ frames[r].pc = "optimizer_loop"
    /\ frames[r].day < ConcDays(frames[r].args)
    /\ LET f == frames[r]
           s == solo[r]
           date_str == strftime(strptime(f.args.start_date) + f.day)
           available_a == DerefList(heap, f.available_activities)
           available_r == DerefList(heap, f.available_restaurants)
       IN  \E pa \in ShuffleOutcomes(NeedsReset(available_a, f.used_activities),
                                     Len(available_a)),
              pr \in ShuffleOutcomes(NeedsReset(available_r, f.used_restaurants),
                                     Len(available_r)) :
               LET here == OptimizerDayOf(available_a, available_r, f.used_activities,
                                          f.used_restaurants, date_str, pa, pr)
                   alone == OptimizerDayOf(s.available_activities[1],
                                           s.available_restaurants[1], s.used_activities,
                                           s.used_restaurants, date_str, pa, pr)
                   refs == [morning |-> RefOf(heap, f.available_activities,
                                              here.day_plan.morning),
                            afternoon |-> RefOf(heap, f.available_activities,
                                                here.day_plan.afternoon),
                            evening |-> RefOf(heap, f.available_restaurants,
                                              here.day_plan.evening)]
               IN  /\ frames' = [frames EXCEPT
                          ![r].day = @ + 1,
                          ![r].used_activities = here.used_activities,
                          ![r].used_restaurants = here.used_restaurants,
                          ![r].itinerary = WithDay(@, date_str, refs)]
                   /\ solo' = [solo EXCEPT
                          ![r].day = @ + 1,
                          ![r].used_activities = alone.used_activities,
                          ![r].used_restaurants = alone.used_restaurants,
                          ![r].itinerary = WithDay(@, date_str, alone.day_plan)]
    /\ UNCHANGED heap
    /\ ConcFrame

\* lines 638-663: the confidence score, the cost breakdown (a new dict) and
\* the travel comparison of call r
ConcComputeCosts(r) ==
    /\ frames[r].pc = "optimizer_loop"
    /\ frames[r].day >= ConcDays(frames[r].args)
    /\ LET f == frames[r]
           a == f.args
           breakdown == CostBreakdown(a.destination, a.start_date, a.end_date,
                                      a.budget_level, a.num_travelers, a.include_lodging)
           comparison == IF a.origin_city = <<>> THEN None
                         ELSE <<Comparison(RouteEstimates(a.origin_city, a.destination),
                                           a.num_travelers)>>
       IN  /\ heap' = AllocObject(heap, r, "cost_breakdown", breakdown)
           /\ frames' = [frames EXCEPT
                  ![r].pc = "plan_compared",
                  ![r].confidence_score =
                      <<Confidence(DerefList(heap, f.scored_activities),
                                   DerefList(heap, f.scored_restaurants))>>,
                  ![r].cost_breakdown = <<ObjectId(r, "cost_breakdown", 0)>>,
                  ![r].total_cost = <<SumValues(breakdown)>>,
                  ![r].travel_comparison = comparison]
           /\ solo' = [solo EXCEPT
                  ![r].confidence_score =
                      <<Confidence(solo[r].scored_activities, solo[r].scored_restaurants)>>,
                  ![r].cost_breakdown = <<breakdown>>,
                  ![r].total_cost = <<SumValues(breakdown)>>,
                  ![r].travel_comparison = comparison]
    /\ ConcFrame

\* lines 671-693: the TripPlan of call r refers to the objects of its locals
ConcAssemble(r) ==
    /\ frames[r].pc = "plan_compared"
    /\ LET f == frames[r]
           s == solo[r]
       IN  /\ heap' = AllocObject(heap, r, "trip_plan",
                          [restaurants |-> f.scored_restaurants,
                           activities |-> f.scored_activities,
                           festivals_events |-> f.festivals_events,
                           itinerary |-> f.itinerary,
                           confidence_score |-> f.confidence_score[1],
                           cost_breakdown |-> f.cost_breakdown,
                           total_estimated_cost |-> f.total_cost[1],
                           travel_comparison |-> f.travel_comparison])
           /\ solo' = [solo EXCEPT ![r].trip_plan =
                          <<[restaurants |-> s.scored_restaurants,
                             activities |-> s.scored_activities,
                             festivals_events |-> s.festivals_events,
                             itinerary |-> s.itinerary,
                             confidence_score |-> s.confidence_score[1],
                             cost_breakdown |-> s.cost_breakdown[1],
                             total_estimated_cost |-> s.total_cost[1],
                             travel_comparison |-> s.travel_comparison]>>]
    /\ frames' = [frames EXCEPT ![r].pc = "plan_done",
                                ![r].trip_plan = <<ObjectId(r, "trip_plan", 0)>>]
    /\ ConcFrame

\* the call of either request that runs next, up to its next yield
ConcNext ==
    \E r \in Requests :
        \/ ConcFetch(r)
        \/ ConcScoreRestaurants(r)
        \/ ConcScoreActivities(r)
        \/ ConcScoreFestivals(r)
        \/ ConcBuildItinerary(r)
        \/ ConcOptimizerDay(r)
        \/ ConcComputeCosts(r)
        \/ ConcAssemble(r)

ConcSpec == ConcInit /\ [][ConcNext]_vars

(***************************************************************************)
(* Properties of concurrent requests.                                      *)
(***************************************************************************)
\* a referenced object, as an optional value
DerefObject(h, ref) == IF ref = None THEN None ELSE <<h[ref[1]]>>

\* an itinerary with the items its slots refer to
DerefItinerary(h, it) ==
    [d \in DOMAIN it |-> [slot \in DOMAIN it[d] |-> DerefObject(h, it[d][slot])]]

\* the TripPlan behind a reference, with the objects it refers to
DerefTripPlan(h, ref) ==
    IF ref = None THEN None
    ELSE LET p == h[ref[1]]
         IN  <<[restaurants |-> DerefList(h, p.restaurants),
                activities |-> DerefList(h, p.activities),
                festivals_events |-> DerefList(h, p.festivals_events),
                itinerary |-> DerefItinerary(h, p.itinerary),
                confidence_score |-> p.confidence_score,
                cost_breakdown |-> h[p.cost_breakdown[1]],
                total_estimated_cost |-> p.total_estimated_cost,
                travel_comparison |-> p.travel_comparison]>>

\* the locals of call r, with the objects they refer to in the shared heap
FrameValues(r) ==
    LET f == frames[r]
    IN  [restaurants |-> DerefList(heap, f.restaurants),
         activities |-> DerefList(heap, f.activities),
         festivals_events |-> DerefList(heap, f.festivals_events),
         scored_restaurants |-> DerefList(heap, f.scored_restaurants),
         scored_activities |-> DerefList(heap, f.scored_activities),
         available_activities |->
             IF f.available_activities = None THEN None
             ELSE <<DerefList(heap, f.available_activities)>>,
         available_restaurants |->
             IF f.available_restaurants = None THEN None
             ELSE <<DerefList(heap, f.available_restaurants)>>,
         day |-> f.day,
         used_activities |-> f.used_activities,
         used_restaurants |-> f.used_restaurants,
         itinerary |-> DerefItinerary(heap, f.itinerary),
         confidence_score |-> f.confidence_score,
         cost_breakdown |-> DerefObject(heap, f.cost_breakdown),
         total_cost |-> f.total_cost,
         travel_comparison |-> f.travel_comparison,
         trip_plan |-> DerefTripPlan(heap, f.trip_plan)]

\* the objects call r can reach from its locals: its lists, their items, its
\* cost breakdown and its TripPlan
Reachable(r) ==
    LET f == frames[r]
        lists == UNION {Range(f[k]) : k \in {"restaurants", "activities", "festivals_events",
                                             "scored_restaurants", "scored_activities",
                                             "available_activities",
                                             "available_restaurants"}}
    IN  lists \cup UNION {Range(heap[l]) : l \in lists}
              \cup Range(f.cost_breakdown) \cup Range(f.trip_plan)

\* C23: two requests interleaved on one TripPlanner share no pool, scored
\* list, used set or result object, and the itinerary, the cost breakdown
\* and the TripPlan of each (with every other local) are those of the same
\* request run alone with the same random outcomes.
C23_RequestsAreIsolated ==
    /\ \A r \in Requests : FrameValues(r) = solo[r]
    /\ \A r1, r2 \in Requests : r1 # r2 => Reachable(r1) \cap Reachable(r2) = {}

\* the first request is building its itinerary while the second, which found
\* a festival too, has merged it and not yet built its own
C23_Witness ==
    /\ frames[1].pc = "optimizer_loop"
    /\ frames[2].pc = "plan_merged"
    /\ Len(heap[frames[1].scored_activities[1]]) = 3
    /\ Len(heap[frames[2].scored_activities[1]]) = 3

(***************************************************************************)
(* Further properties of the scorers.                                      *)
(***************************************************************************)
\* the list with one more entry after its first k
WithInterest(ints, k, extra) == SubSeq(ints, 1, k) \o <<extra>> \o SubSeq(ints, k + 1, Len(ints))

\* C24: function_tool_evaluator scores each item min(1.0, 0.5 + 0.2 k + w),
\* k being the number of entries of the interest list (duplicates counted)
\* that are a case-insensitive substring of at least one tag and w the
\* weather bonus, 0 or 0.1; an entry matching several tags counts once, and
\* one more interest never lowers a score.
C24_EvaluatorFormula ==
    pc = "scored" /\ scorer = "function_tool_evaluator" =>
        /\ Len(scored_items) = Len(items)
        /\ \A i \in 1..Len(items) :
               /\ weather_bonus[i] \in {0, 10}
               /\ \E j \in 1..Len(scored_items) :
                      /\ Unscored(scored_items[j]) = items[i]
                      /\ scored_items[j].score =
                             <<Min(100, 50 + 20 * MatchCount(items[i], interests)
                                           + weather_bonus[i])>>
        /\ \A item \in Range(items) :
               LET score == EvaluatorScore(item, interests, weather)
               IN  \A extra \in ScorerInterests, k \in {0, Len(interests)} :
                       EvaluatorScore(item, WithInterest(interests, k, extra), weather)
                           >= score

\* the interest "oo", given twice, matches two tags of the one item scored:
\* 0.5 + 2 x 0.2, and 0.1 for the weather
C24_Witness ==
    /\ pc = "scored"
    /\ scorer = "function_tool_evaluator"
    /\ interests = <<oo, oo>>
    /\ weather.condition = <<sunny>>
    /\ Len(scored_items) = 1
    /\ scored_items[1].tags = <<food, outdoor>>
    /\ scored_items[1].score = <<100>>

(***************************************************************************)
(* Further properties of plan_trip.                                        *)
(***************************************************************************)
\* a list of scored items in non-increasing score order
NonIncreasingScores(s) ==
    \A i, j \in 1..Len(s) : i < j => s[i].score[1] >= s[j].score[1]

\* C25: once the festivals are scored, boosted and merged, the activity list
\* handed to the optimizer and stored in the TripPlan is in non-increasing
\* score order, every boosted festival standing before every regular activity
\* with a lower score.
C25_MergedListSorted ==
    /\ "ScoreFestivals" \in Range(stages) => NonIncreasingScores(scored_activities)
    /\ "BuildItinerary" \in Range(stages) => NonIncreasingScores(available_activities)
    /\ trip_plan # None => NonIncreasingScores(trip_plan[1].activities)

(***************************************************************************)
(* Further properties of function_tool_optimizer.                          *)
(***************************************************************************)
\* the plan of the k-th day built
PlanOfDay(k) == itinerary[locals[k].date_str]

SameItem(a, b) == a # None /\ b # None /\ a[1].name = b[1].name

\* C26: no item is repeated immediately: with at least two restaurants the
\* evening slots of two consecutive days never hold the same restaurant, and
\* with at least two activities the afternoon of a day and the morning of the
\* next never hold the same activity, whatever the reshuffles give.
C26_NoImmediateRepeat ==
    \A k \in 1..(Len(locals) - 1) :
        /\ Len(available_restaurants) >= 2 =>
               ~SameItem(PlanOfDay(k).evening, PlanOfDay(k + 1).evening)
        /\ Len(available_activities) >= 2 =>
               ~SameItem(PlanOfDay(k).afternoon, PlanOfDay(k + 1).morning)

\* C28: on every day of the itinerary (activity names unique in the pool)
\* the morning and the afternoon never hold the same activity, whichever
\* branch filled the afternoon and whether or not the pool was reset that day.
C28_MorningAndAfternoonDiffer ==
    \A k \in 1..Len(locals) :
        /\ ~SameItem(PlanOfDay(k).morning, PlanOfDay(k).afternoon)
        /\ locals[k].branch \in {"festival", "unused"} =>
               /\ PlanOfDay(k).morning # None
               /\ PlanOfDay(k).afternoon # None

\* three days on a pool of three: a festival and an unused activity on the
\* first day, the fallback on the second, a reset on the third
C28_Witness ==
    /\ pc = "optimizer_done"
    /\ Len(locals) = 3
    /\ Len(available_activities) = 3
    /\ \E k \in 1..3 : locals[k].branch = "festival"
    /\ locals[2].branch = "different_type"
    /\ PlanOfDay(2).afternoon # None
    /\ locals[3].reset_activities
    /\ locals[3].branch = "unused"

\* a festival-type activity carrying a date range
IsFestival(act) == act.type \in FestivalTypes /\ act.start_date # None /\ act.end_date # None

\* C29: a festival-type activity is placed in a morning or afternoon slot
\* only on a date within its [start_date, end_date] range, never on a trip
\* day outside it, for any trip length and pool.
C29_FestivalsOnlyOnTheirDates ==
    \A k \in 1..Len(locals) :
        \A slot \in {"morning", "afternoon"} :
            LET choice == PlanOfDay(k)[slot]
            IN  (choice # None /\ IsFestival(choice[1])) =>
                    /\ DateStrLeq(choice[1].start_date[1], locals[k].date_str)
                    /\ DateStrLeq(locals[k].date_str, choice[1].end_date[1])

(***************************************************************************)
(* Further properties of the travel comparison.                            *)
(***************************************************************************)
\* C30: with the built-in distance and fare tables and the default
\* estimates, for every pair of cities (in either order, listed or not) and
\* every party of two or more, compare_travel_options recommends driving as
\* 'significantly cheaper'; so the rule for parties of three or more never
\* decides.
C30_DrivingForParties ==
    pc = "travel_done" =>
        /\ num_travelers >= 2 =>
               /\ Preferred = "driving"
               /\ Reason = "significantly cheaper"
               /\ CostGap < 0 - 100000
        /\ Reason # "better value for larger groups"

\* a party of three for whom driving is recommended as significantly cheaper
C30_Witness ==
    /\ pc = "travel_done"
    /\ num_travelers = 3
    /\ origin_city # destination
    /\ Preferred = "driving"
    /\ Reason = "significantly cheaper"
    /\ CostGap < 0 - 100000

(***************************************************************************)
(* plan_trip of planner_backup.py: the destination data, the itinerary of  *)
(* _create_structured_itinerary and the stream up to format_trip_plan.     *)
(* In this specification the variable itinerary holds itinerary_result and *)
(* stages holds the method that produced each stage's result.              *)
(***************************************************************************)
\* a Python list and a Python dict: format_trip_plan calls .items() on the
\* itinerary, which only a dict has
PyList(s) == [type |-> "list", value |-> s]
PyDict(d) == [type |-> "dict", value |-> d]

\* an item of _parse_destination_info with its 'estimated_cost', in dollars
Priced(item, cost) ==
    [name |-> item.name, type |-> item.type, tags |-> item.tags, rating |-> item.rating,
     start_date |-> item.start_date, end_date |-> item.end_date, score |-> item.score,
     estimated_cost |-> cost]

\* planner_backup.py lines 84-107 (the cuisine, the temperature, the humidity
\* and the forecast are not modelled)
parse_destination_info ==
    [weather |-> [condition |-> <<sunny>>],
     restaurants |->
      << Priced(Item(<<"L", "o", "c", "a", "l", " ", "B", "i", "s", "t", "r", "o">>, "None", <<food, <<"f", "i", "n", "e", " ", "d", "i", "n", "i", "n", "g">>>>, 45, None, None), 65),
         Priced(Item(<<"S", "t", "r", "e", "e", "t", " ", "F", "o", "o", "d", " ", "M", "a", "r", "k", "e", "t">>, "None", <<food, <<"c", "a", "s", "u", "a", "l">>, outdoor>>, 42, None, None), 25),
         Priced(Item(<<"H", "i", "s", "t", "o", "r", "i", "c", " ", "T", "a", "v", "e", "r", "n">>, "None", <<<<"h", "i", "s", "t", "o", "r", "y">>, food, indoor>>, 43, None, None), 45),
         Priced(Item(<<"R", "o", "o", "f", "t", "o", "p", " ", "R", "e", "s", "t", "a", "u", "r", "a", "n", "t">>, "None", <<food, <<"f", "i", "n", "e", " ", "d", "i", "n", "i", "n", "g">>, outdoor>>, 46, None, None), 80),
         Priced(Item(<<"E", "t", "h", "n", "i", "c", " ", "F", "u", "s", "i", "o", "n", " ", "C", "a", "f", "e">>, "None", <<food, <<"c", "a", "s", "u", "a", "l">>, <<"c", "u", "l", "t", "u", "r", "e">>>>, 41, None, None), 35) >>,
     activities |->
      << Priced(Item(<<"C", "i", "t", "y", " ", "M", "u", "s", "e", "u", "m">>, "Cultural", <<<<"h", "i", "s", "t", "o", "r", "y">>, indoor, <<"c", "u", "l", "t", "u", "r", "e">>>>, 44, None, None), 20),
         Priced(Item(<<"F", "o", "o", "d", " ", "W", "a", "l", "k", "i", "n", "g", " ", "T", "o", "u", "r">>, "Tour", <<food, outdoor, <<"w", "a", "l", "k", "i", "n", "g">>>>, 46, None, None), 55),
         Priced(Item(<<"C", "o", "n", "c", "e", "r", "t", " ", "H", "a", "l", "l">>, "Entertainment", <<<<"m", "u", "s", "i", "c">>, indoor>>, 43, None, None), 75),
         Priced(Item(<<"L", "o", "c", "a", "l", " ", "M", "a", "r", "k", "e", "t">>, "Shopping", <<food, outdoor, <<"c", "u", "l", "t", "u", "r", "e">>>>, 41, None, None), 0),
         Priced(Item(<<"A", "r", "t", " ", "G", "a", "l", "l", "e", "r", "y">>, "Cultural", <<art, indoor, <<"c", "u", "l", "t", "u", "r", "e">>>>, 45, None, None), 15),
         Priced(Item(<<"S", "c", "e", "n", "i", "c", " ", "P", "a", "r", "k">>, "Nature", <<<<"n", "a", "t", "u", "r", "e">>, outdoor, <<"w", "a", "l", "k", "i", "n", "g">>>>, 42, None, None), 0) >>,
     festivals |-> <<>>]

\* evaluate_and_score_items, lines 113-142: _apply_intelligent_scoring when
\* the completion call returns, _apply_basic_scoring when it raises
evaluate_and_score_items(its, ints, w, ai_ok) ==
    SortedByScore([i \in 1..Len(its) |->
        WithScore(its[i], IF ai_ok THEN IntelligentScore(its[i], ints, w)
                                   ELSE BasicScore(its[i], ints, w))])

\* budget_multiplier of _create_structured_itinerary, line 222, in tenths
budget_multiplier(level) ==
    IF level = "Budget" THEN 8
    ELSE IF level = "Mid-range" THEN 10
    ELSE IF level = "Luxury" THEN 15
    ELSE 10

\* the selection loop of lines 225-233 over activities[:15]
RECURSIVE SelectActivities(_, _)
SelectActivities(selected, rest) ==
    IF rest = <<>> THEN selected
    ELSE LET activity == Head(rest)
             activity_types == {selected[i].type : i \in 1..Len(selected)}
         IN  IF /\ Len(selected) < 9
                /\ (activity.type \notin activity_types \/ Len(selected) < 6)
             THEN SelectActivities(Append(selected, activity), Tail(rest))
             ELSE SelectActivities(selected, Tail(rest))

\* s[a:b] of Python, for 0 <= a <= b
Slice(s, a, b) == SubSeq(s, a + 1, Min(b, Len(s)))

\* sum(... for act, rest in zip(selected_activities, selected_restaurants)),
\* lines 250-253, in cents
RECURSIVE ZipCost(_, _, _, _)
ZipCost(acts, rests, multiplier, n) ==
    IF acts = <<>> \/ rests = <<>> THEN 0
    ELSE (Head(acts).estimated_cost + Head(rests).estimated_cost) * 10 * multiplier * n
             + ZipCost(Tail(acts), Tail(rests), multiplier, n)

\* _create_structured_itinerary, lines 219-263: 'days' is a list of three
\* day dicts
create_structured_itinerary(acts, rests, n, level) ==
    LET selected_activities == SelectActivities(<<>>, Slice(acts, 0, 15))
        selected_restaurants == Slice(rests, 0, 6)
        three_days == [day_num \in 1..3 |->
                          [day |-> day_num,
                           activities |-> Slice(selected_activities,
                                                (day_num - 1) * 3, day_num * 3),
                           restaurants |-> Slice(selected_restaurants,
                                                 (day_num - 1) * 2, day_num * 2)]]
        cost == ZipCost(selected_activities, selected_restaurants, budget_multiplier(level), n)
    IN  PyDict([days |-> PyList(three_days),
                total_activities |-> Len(selected_activities),
                total_restaurants |-> Len(selected_restaurants),
                estimated_cost_per_person |-> cost \div n,
                total_estimated_cost |-> cost,
                budget_level |-> level,
                ai_optimized |-> TRUE])

\* itinerary_result.get('days', []), lines 695 and 824
DaysOf(itinerary_result) ==
    IF "days" \in DOMAIN itinerary_result.value THEN itinerary_result.value.days
    ELSE PyList(<<>>)

\* confidence_score of lines 677-678: the pooled average plus 0.1 for an
\* 'ai_optimized' itinerary, at most 1.0
BackupConfidence(acts, rests, itinerary_result) ==
    LET pool == acts \o rests
        bonus == IF itinerary_result.value.ai_optimized THEN 10 ELSE 0
    IN  [num |-> Min(100 * Len(pool), SumScores(pool) + bonus * Len(pool)),
         den |-> Len(pool)]

\* format_trip_plan, lines 838-1001: `for date, day_plan in
\* plan.itinerary.items()` at line 876 raises AttributeError for a list
format_trip_plan(plan) ==
    IF plan.itinerary.type = "dict" THEN "report" ELSE "AttributeError"

\* the interest lists of the calls: lists for which the floating-point sums
\* of the two scorers order the items as the exact sums do
BackupInterests ==
    {<<>>, <<food>>, <<food, <<"h", "i", "s", "t", "o", "r", "y">>>>}

\* A call of planner_backup.py's plan_trip with valid inputs.
BackupInit ==
    /\ pc = "backup_call"
    /\ destination \in {CharlestonSC, ParisFrance}
    /\ origin_city \in {<<>>, <<"A", "t", "l", "a", "n", "t", "a">>}
    /\ start_date = <<2025, 8, 15>>
    /\ end_date \in {<<2025, 8, 15>>, <<2025, 8, 17>>}
    /\ interests \in BackupInterests
    /\ budget_level \in BudgetLevels
    /\ num_travelers \in 1..2
    /\ include_lodging \in BOOLEAN
    /\ weather = None
    /\ items = <<>>
    /\ scorer = "none"
    /\ scored_items = <<>>
    /\ weather_bonus = <<>>
    /\ cost_breakdown = None
    /\ total_cost = None
    /\ route_estimates = None
    /\ travel_comparison = None
    /\ error = None
    /\ OptimizerUnused
    /\ PlanTripIdle

BackupFrame ==
    /\ UNCHANGED <<tripArgs, start_date, end_date, interests>>
    /\ UNCHANGED <<available_activities, available_restaurants, day, used_activities,
                   used_restaurants, locals>>
    /\ UNCHANGED <<items, scorer, scored_items, weather_bonus>>

\* lines 633-643: search_destination_info returns the same data whether the
\* completion call returns (line 74) or raises (line 79)
BackupSearch ==
    /\ pc = "backup_call"
    /\ \E ai_ok \in BOOLEAN :
          Stage(IF ai_ok THEN "_parse_destination_info" ELSE "_get_fallback_data")
    /\ Emit(<<"start", "ai_analyzing">>)
    /\ weather' = parse_destination_info.weather
    /\ festivals_events' = parse_destination_info.festivals
    /\ pc' = "backup_fetched"
    /\ UNCHANGED <<scored_restaurants, scored_activities, confidence_score, trip_plan>>
    /\ UNCHANGED <<itinerary, cost_breakdown, total_cost, error, travelVars>>
    /\ BackupFrame

\* lines 646-657: the two evaluations, and the festivals when there are any
BackupScore ==
    /\ pc = "backup_fetched"
    /\ \E ai_restaurants \in BOOLEAN, ai_activities \in BOOLEAN, ai_festivals \in BOOLEAN :
          LET acts == evaluate_and_score_items(parse_destination_info.activities,
                                               interests, weather, ai_activities)
              scored_festivals ==
                  evaluate_and_score_items(festivals_events, interests, weather, ai_festivals)
              boosted == [i \in 1..Len(scored_festivals) |->
                             WithScore(scored_festivals[i],
                                       Clamp(scored_festivals[i].score[1] + 20))]
          IN  /\ scored_restaurants' =
                     evaluate_and_score_items(parse_destination_info.restaurants,
                                              interests, weather, ai_restaurants)
              /\ scored_activities' = acts \o boosted
              /\ stages' = stages \o
                     << IF ai_restaurants THEN "_apply_intelligent_scoring"
                                          ELSE "_apply_basic_scoring",
                        IF ai_activities THEN "_apply_intelligent_scoring"
                                         ELSE "_apply_basic_scoring" >>
                     \o (IF festivals_events = <<>> THEN <<>>
                         ELSE << IF ai_festivals THEN "_apply_intelligent_scoring"
                                                 ELSE "_apply_basic_scoring" >>)
    /\ Emit(IF festivals_events = <<>> THEN <<"ai_evaluating">>
            ELSE <<"ai_evaluating", "found_festivals">>)
    /\ pc' = "backup_scored"
    /\ UNCHANGED <<weather, festivals_events, confidence_score, trip_plan>>
    /\ UNCHANGED <<itinerary, cost_breakdown, total_cost, error, travelVars>>
    /\ BackupFrame

\* lines 660-661: optimize_itinerary builds the same itinerary whether the
\* completion call returns (line 213) or raises (line 217)
BackupOptimize ==
    /\ pc = "backup_scored"
    /\ \E ai_ok \in BOOLEAN :
          Stage(IF ai_ok THEN "_create_structured_itinerary" ELSE "_create_basic_itinerary")
    /\ Emit(<<"ai_itinerary">>)
    /\ itinerary' = create_structured_itinerary(scored_activities, scored_restaurants,
                                                num_travelers, budget_level)
    /\ pc' = "backup_optimized"
    /\ UNCHANGED <<weather, festivals_events, scored_restaurants, scored_activities,
                   confidence_score, trip_plan>>
    /\ UNCHANGED <<cost_breakdown, total_cost, error, travelVars>>
    /\ BackupFrame

\* lines 664-666: the total is the itinerary's 'total_estimated_cost'
BackupCosts ==
    /\ pc = "backup_optimized"
    /\ Emit(<<"calculating_costs">>)
    /\ cost_breakdown' = <<CostBreakdown(destination, start_date, end_date,
                                         budget_level, num_travelers, include_lodging)>>
    /\ total_cost' =
           << IF "total_estimated_cost" \in DOMAIN itinerary.value
              THEN itinerary.value.total_estimated_cost
              ELSE SumValues(cost_breakdown'[1]) >>
    /\ pc' = "backup_costed"
    /\ UNCHANGED <<weather, festivals_events, scored_restaurants, scored_activities,
                   confidence_score, trip_plan>>
    /\ UNCHANGED <<itinerary, error, travelVars, stages>>
    /\ BackupFrame

\* lines 668-674, with an origin city
BackupCompareTravel ==
    /\ pc = "backup_costed"
    /\ origin_city # <<>>
    /\ Emit(<<"analyzing_travel", "travel_analysis_complete">>)
    /\ route_estimates' = <<RouteEstimates(origin_city, destination)>>
    /\ travel_comparison' = <<Comparison(route_estimates'[1], num_travelers)>>
    /\ pc' = "backup_compared"
    /\ UNCHANGED <<weather, festivals_events, scored_restaurants, scored_activities,
                   confidence_score, trip_plan>>
    /\ UNCHANGED <<itinerary, cost_breakdown, total_cost, error, stages>>
    /\ BackupFrame

\* lines 668-669, without an origin city
BackupSkipTravel ==
    /\ pc = "backup_costed"
    /\ origin_city = <<>>
    /\ pc' = "backup_compared"
    /\ UNCHANGED <<weather, festivals_events, scored_restaurants, scored_activities,
                   confidence_score, trip_plan>>
    /\ UNCHANGED <<itinerary, cost_breakdown, total_cost, error, travelVars>>
    /\ UNCHANGED <<stages, emitted>>
    /\ BackupFrame

\* lines 677-683
BackupCheckConfidence ==
    /\ pc = "backup_compared"
    /\ confidence_score' = <<BackupConfidence(scored_activities, scored_restaurants, itinerary)>>
    /\ Emit(IF confidence_score'[1].num >= 70 * confidence_score'[1].den
            THEN <<"high_confidence">> ELSE <<"refine_interests">>)
    /\ pc' = "backup_checked"
    /\ UNCHANGED <<weather, festivals_events, scored_restaurants, scored_activities, trip_plan>>
    /\ UNCHANGED <<itinerary, cost_breakdown, total_cost, error, travelVars, stages>>
    /\ BackupFrame

\* lines 686-706: the TripPlan, whose itinerary is the 'days' list, and the
\* completion message
BackupAssemble ==
    /\ pc = "backup_checked"
    /\ trip_plan' = <<[destination |-> destination,
                       start_date |-> start_date,
                       end_date |-> end_date,
                       interests |-> interests,
                       weather_info |-> weather,
                       restaurants |-> scored_restaurants,
                       activities |-> scored_activities,
                       festivals_events |-> festivals_events,
                       itinerary |-> DaysOf(itinerary),
                       confidence_score |-> confidence_score[1],
                       budget_level |-> budget_level,
                       num_travelers |-> num_travelers,
                       include_lodging |-> include_lodging,
                       cost_breakdown |-> cost_breakdown[1],
                       total_estimated_cost |-> total_cost[1],
                       origin_city |-> origin_city,
                       travel_comparison |-> travel_comparison]>>
    /\ Emit(<<"complete">>)
    /\ pc' = "backup_assembled"
    /\ UNCHANGED <<weather, festivals_events, scored_restaurants, scored_activities,
                   confidence_score>>
    /\ UNCHANGED <<itinerary, cost_breakdown, total_cost, error, travelVars, stages>>
    /\ BackupFrame

\* line 707: format_trip_plan is called when the generator is resumed; its
\* exception ends the generator, its result would be yielded and the
\* generator would go on with line 710
BackupFormat ==
    /\ pc = "backup_assembled"
    /\ LET result == format_trip_plan(trip_plan[1])
       IN  IF result = "AttributeError"
           THEN /\ error' = <<"AttributeError">>
                /\ pc' = "backup_error"
                /\ UNCHANGED emitted
           ELSE /\ Emit(<<result>>)
                /\ pc' = "backup_second_pass"
                /\ UNCHANGED error
    /\ UNCHANGED <<weather, festivals_events, scored_restaurants, scored_activities,
                   confidence_score, trip_plan>>
    /\ UNCHANGED <<itinerary, cost_breakdown, total_cost, travelVars, stages>>
    /\ BackupFrame

BackupNext ==
    \/ BackupSearch
    \/ BackupScore
    \/ BackupOptimize
    \/ BackupCosts
    \/ BackupCompareTravel
    \/ BackupSkipTravel
    \/ BackupCheckConfidence
    \/ BackupAssemble
    \/ BackupFormat

BackupSpec == BackupInit /\ [][BackupNext]_vars

(***************************************************************************)
(* Properties of planner_backup.py's plan_trip.                            *)
(***************************************************************************)
Occurrences(s, x) == Cardinality({i \in 1..Len(s) : s[i] = x})

\* C27: a run of planner_backup.py's plan_trip that has come to its end has
\* not failed, has emitted the completion message once and then the report
\* once as its last item, has handed the 'days' value of optimize_itinerary
\* to the formatter, and has not gone on into a second planning pass
C27_CompletionThenReport ==
    pc \in {"backup_error", "backup_second_pass"} =>
        /\ error = None
        /\ pc # "backup_second_pass"
        /\ Occurrences(emitted, "complete") = 1
        /\ Occurrences(emitted, "report") = 1
        /\ Len(emitted) >= 2
        /\ emitted[Len(emitted)] = "report"
        /\ emitted[Len(emitted) - 1] = "complete"
        /\ trip_plan[1].itinerary = itinerary.value.days

====
